---- MODULE Spec2Model ----
(***************************************************************************)
(* A model of the Vespa document index of danswer                          *)
(* (backend/danswer/document_index/vespa/index.py): the batched mutation   *)
(* engine (index, update), and the filter builder.                         *)
(*                                                                         *)
(* The remote index is the variable vespa: a function from the identifiers *)
(* of the stored chunks to their field maps.  Every worker-pool task is one*)
(* action; the calling thread's barriers (the as_completed loops) are      *)
(* actions of their own.                                                   *)
(***************************************************************************)
EXTENDS Integers, Sequences, FiniteSets, TLC

(***************************************************************************)
(* Bounds of the model.                                                    *)
(***************************************************************************)
\* chunk indices of a document range over 0..MaxChunkId
MaxChunkId == 1
\* update(): a document of the index holds at most MaxStoredChunks chunks
MaxStoredChunks == 3
\* update(): the caller supplies at most MaxRequests UpdateRequests
MaxRequests == 1
\* update(): the batch size ranges over 1..MaxBatchSize
MaxBatchSize == 2
\* filters: the lists of an IndexFilters hold at most MaxLen entries
MaxLen == 2
\* filters: an instant is a whole number of ticks, TicksPerSecond to the second
TicksPerSecond == 2
\* filters: the cutoffs lie at most MaxSkew ticks from the instants they are near
MaxSkew == 2
\* retrieval: a search response holds at most MaxHits hits
MaxHits == 2
\* retrieval by id: the document has the chunks 0..MaxDocChunkId
MaxDocChunkId == 2
\* pool: a top-level call has at most MaxTasks chunks, documents or updates
MaxTasks == 17
\* scan: a document has at most MaxScanChunks chunks in the index
MaxScanChunks == 3
\* scan: the page size is at most MaxPageSize
MaxPageSize == 3
\* retrieval: the time decay multiplier of a call is in 0..MaxMultiplier
MaxMultiplier == 3
\* slack: MaxSlackRequests requests come in
MaxSlackRequests == 2
\* summaries: a dynamic summary holds at most MaxSummaryLen characters and
\* separators, and the max length ranges over 1..MaxSummaryLen + 1
MaxSummaryLen == 5

\* the document ids the callers supply
Docs == {"doc_a", "doc_b"}
ChunkIds == 0..MaxChunkId

(***************************************************************************)
(* Program constants.                                                      *)
(***************************************************************************)
BATCH_SIZE == 100
NUM_THREADS == 16
DEFAULT_BOOST == 0
\* the field names of the index the filters refer to
HIDDEN == "hidden"
ACCESS_CONTROL_LIST == "access_control_list"
SOURCE_TYPE == "source_type"
DOCUMENT_SETS == "document_sets"
DOC_UPDATED_AT == "doc_updated_at"
\* timedelta(days=92), the default of untimed_doc_cutoff
UNTIMED_DOC_CUTOFF_DAYS == 92
\* the default of max_summary_length
DEFAULT_MAX_SUMMARY_LENGTH == 400
\* the boost of a hit without a boost field
BOOST_OF_HIT_WITHOUT_BOOST == 1
\* @retry(tries=3, delay=1, backoff=2)
RETRY_TRIES == 3
RETRY_DELAY == 1
RETRY_BACKOFF == 2

\* an optional attribute is the empty set when it is None, and {v} when it is v
None == {}
Some(v) == {v}
ValueOf(optional) == CHOOSE v \in optional : TRUE

VARIABLES
    vespa,          \* the remote index: chunk identifier -> field map
    pc,             \* index(): "idle", "exists", "delete", "insert", "done", "failed"
    chunks,         \* index(): the chunks the caller supplied
    pending,        \* index(): the tasks submitted to the pool and not finished
    existing_docs,  \* index(): the ids of the documents found to exist
    raised,         \* index(): a task of the call has raised
    records,        \* index(): the DocumentInsertionRecords returned
    sent,           \* history: the requests the running call has sent
    pre,            \* history: the index when the running call started
    prev,           \* history: per document, how the chunks of the call before
                    \* (if it returned) relate to those of the running call
    complete,       \* history: every call so far supplied complete chunk sets
    inserted,       \* history: the identifiers whose POST the index accepted in this call
    failed_call,    \* history: the chunks of the call that failed while inserting and is
                    \* called again, and the index before its first attempt
    upc,            \* update(): "idle", "apply", "done", "raised"
    update_requests,\* update(): the UpdateRequests the caller supplied
    batch_size,     \* update(): the batch size of _apply_updates_batched
    updates,        \* update(): processed_updates_requests
    scans,          \* update(): the document ids whose chunk ids were scanned
    submitted,      \* update(): how many of the updates were submitted to the pool
    inflight,       \* update(): the submitted updates whose PUT has not been sent
    rejected,       \* update(): the updates whose PUT was answered with an error
    puts,           \* history: per update, the PUT requests sent for it
    fpc,            \* _build_vespa_filters: "idle" before the call, "built" after it
    filters,        \* _build_vespa_filters: the IndexFilters argument
    include_hidden, \* _build_vespa_filters: the include_hidden argument
    utcnow,         \* _build_vespa_filters: datetime.now(timezone.utc), in ticks
    clauses,        \* _build_vespa_filters: the strings appended to filter_str, in order
    filter_str,     \* _build_vespa_filters: the string returned
    spc,            \* _process_dynamic_summary: "idle", "processed", "reprocessed"
    dynamic_summary,        \* _process_dynamic_summary: the string to truncate
    max_summary_length,     \* _process_dynamic_summary: the max length
    processed_summary,      \* _process_dynamic_summary: the fragments returned
    reprocessed_summary,    \* the fragments returned for the joined fragments
    cpc,            \* codec: "idle", "encoded", "hit", "decoded"
    codec_chunk,    \* codec: the chunk that is encoded
    lost,           \* codec: the fields the index does not return in the hit
    wire,           \* codec: the field map the chunk is encoded to
    hit,            \* codec: the hit the index returns for the chunk
    inference_chunk,    \* codec: what _vespa_hit_to_inference_chunk(hit) gives
    rpc,            \* retried call: "call", "failed", "returned", "raised"
    rcall,          \* retried call: the function called and its argument
    tries,          \* retried call: the attempts the decorator has left
    delay,          \* retried call: the next sleep of the decorator
    sleeps,         \* retried call: the sleeps of the decorator so far
    attempts,       \* retried call: how often the function body was entered
    gets,           \* retried call: the GET requests sent to the index
    posts,          \* retried call: the POST requests sent to the index
    last_error,     \* retried call: the exception of the last attempt, or ""
    response,       \* retried call: the hits of the last search response
    query_result,   \* retried call: the list _query_vespa returned
    exchanges,      \* retried call: the requests of the mutation helpers, each with the
                    \* attempt that sent it and the status of its answer
    returned_value, \* retried call: what a helper returned
    ipc,            \* id_based_retrieval: "idle", "call", "fetching", "returned", "raised"
    vespa_chunk_ids, \* id_based_retrieval: the chunks the scan of the document found
    fetches,        \* id_based_retrieval: per chunk, the tries left and the state of its fetch
    inference_chunks, \* id_based_retrieval: the fetched chunks, in the order they completed
    id_result,      \* id_based_retrieval: the list returned
    tpc,            \* pool: where the calling thread is: "idle", "enter", "loop",
                    \* "await", "unwind", "returned", "raised"
    tcall,          \* pool: the top-level call and the numbers of its items
    phase,          \* pool: the position of the running phase among the call's phases
    todo,           \* pool: the items of the phase that are not submitted yet
    executor,       \* pool: the pool in use: how many were made, who made this one,
                    \* whether it is alive, how often it was shut down
    external_executor, \* pool: whether the running helper was handed its pool
    queued,         \* pool: the submitted tasks no worker has started
    running,        \* pool: the tasks workers are running
    failed,         \* pool: a task has raised
    num_existing,   \* pool: the existence checks that returned True
    submitted_total, \* history: the tasks submitted so far
    finished_total, \* history: the tasks that ran to their end so far
    unfinished_at_failure, \* history: the submitted tasks that had not ended when
                    \* the calling thread met the failure
    gpc,            \* scan: where _delete_vespa_doc_chunks is: "idle", "scan", "delete",
                    \* "failed", "returned", "raised"
    document_id,    \* scan: the document id of the call, a sequence of lexemes
    hits_per_page,  \* scan: the page size
    offset,         \* scan: params["offset"]
    doc_chunk_ids,  \* scan: the chunk ids collected so far
    deletes,        \* scan: the ids the attempt has sent a DELETE for, in order
    scan_attempts,  \* scan: the attempts of the retried call so far
    pages,          \* history: the pages the attempt has requested
    scanned,        \* history: the index when the attempt began its scan
    summary_raised, \* summary: the last call of _process_dynamic_summary raised
    qpc,            \* retrieval: "idle", "call" or "sent"
    retrieval_call, \* retrieval: the method called and its arguments
    configured,     \* retrieval: the configured DOC_TIME_DECAY and HYBRID_ALPHA
    query_params,   \* retrieval: the params handed to _query_vespa
    slack_requests, \* slack: the socket-mode requests, in the order they came in
    lpc,            \* slack: where process_slack_event is for each request:
                    \* "received", "acknowledged", "handling", "returned", "raised"
    acks,           \* slack: the calls of send_socket_mode_response for each request
    handler,        \* slack: the handler started for each request, or ""
    handler_failed, \* slack: the handler of the request raised
    logged          \* slack: the calls of logger.exception for each request

ixVars == <<pc, chunks, pending, existing_docs, raised, records, sent, pre, prev,
            complete, inserted, failed_call>>
upVars == <<upc, update_requests, batch_size, updates, scans, submitted, inflight,
            rejected, puts>>
\* the variables index() leaves alone, and those update() leaves alone
fbVars == <<fpc, filters, include_hidden, utcnow, clauses, filter_str>>
suVars == <<spc, dynamic_summary, max_summary_length, processed_summary,
            reprocessed_summary, summary_raised>>
cdVars == <<cpc, codec_chunk, lost, wire, hit, inference_chunk>>
rtVars == <<rpc, rcall, tries, delay, sleeps, attempts, gets, posts, last_error, response,
            query_result, exchanges, returned_value>>
idVars == <<ipc, vespa_chunk_ids, fetches, inference_chunks, id_result>>
plVars == <<tpc, tcall, phase, todo, executor, external_executor, queued, running, failed,
            num_existing, submitted_total, finished_total, unfinished_at_failure>>
scVars == <<gpc, document_id, hits_per_page, offset, doc_chunk_ids, deletes, scan_attempts,
            pages, scanned>>
rvVars == <<qpc, retrieval_call, configured, query_params>>
slVars == <<slack_requests, lpc, acks, handler, handler_failed, logged>>
notIndex == <<upVars, fbVars, suVars, cdVars, rtVars, idVars, plVars, scVars, rvVars, slVars>>
notUpdate == <<ixVars, fbVars, suVars, cdVars, rtVars, idVars, plVars, scVars, rvVars, slVars>>
notFilter == <<vespa, ixVars, upVars, suVars, cdVars, rtVars, idVars, plVars, scVars, rvVars, slVars>>
notSummary == <<vespa, ixVars, upVars, fbVars, cdVars, rtVars, idVars, plVars, scVars, rvVars, slVars>>
notCodec == <<vespa, ixVars, upVars, fbVars, suVars, rtVars, idVars, plVars, scVars, rvVars, slVars>>
notRetried == <<vespa, ixVars, upVars, fbVars, suVars, cdVars, idVars, plVars, scVars, rvVars, slVars>>
notIdBased == <<vespa, ixVars, upVars, fbVars, suVars, cdVars, rtVars, plVars, scVars, rvVars, slVars>>
notPool == <<vespa, ixVars, upVars, fbVars, suVars, cdVars, rtVars, idVars, scVars, rvVars, slVars>>
notScan == <<ixVars, upVars, fbVars, suVars, cdVars, rtVars, idVars, plVars, rvVars, slVars>>
notRetrieval == <<vespa, ixVars, upVars, fbVars, suVars, cdVars, rtVars, idVars, plVars, scVars, slVars>>
notSlack == <<vespa, ixVars, upVars, fbVars, suVars, cdVars, rtVars, idVars, plVars, scVars, rvVars>>
vars == <<vespa, ixVars, upVars, fbVars, suVars, cdVars, rtVars, idVars, plVars, scVars, rvVars, slVars>>

(***************************************************************************)
(* Chunks and their identifiers.                                           *)
(***************************************************************************)
\* a DocMetadataAwareIndexChunk, reduced to the attributes index() reads
IndexChunk(doc, ind, content, blurb, source_links, semantic_identifier, section_continuation, boost) ==
    [document_id |-> doc, chunk_id |-> ind, content |-> content, blurb |-> blurb,
     source_links |-> source_links, semantic_identifier |-> semantic_identifier,
     section_continuation |-> section_continuation, boost |-> boost]

\* the chunks of index() and update(), alike but for their document and index
Chunk(doc, ind) == IndexChunk(doc, ind, "text", "blurb", <<>>, "title", FALSE, DEFAULT_BOOST)

\* json.dumps of a mapping with integer keys: a string, spelling the mapping
\* with its keys as strings
JsonDumps(mapping) ==
    [json |-> [key \in {ToString(k) : k \in DOMAIN mapping} |->
                  mapping[CHOOSE k \in DOMAIN mapping : ToString(k) = key]]]

\* json.loads of such a string
JsonLoads(text) == text.json

\* get_uuid_from_chunk: a deterministic, collision-free function of
\* (document id, chunk index)
GetUuidFromChunk(chunk) == <<chunk.document_id, chunk.chunk_id>>

\* the field map _index_vespa_chunk posts for a chunk
VespaDocumentFields(chunk) ==
    [document_id |-> chunk.document_id,
     chunk_id |-> chunk.chunk_id,
     blurb |-> chunk.blurb,
     content |-> chunk.content,
     content_summary |-> chunk.content,
     source_type |-> "web",
     source_links |-> JsonDumps(chunk.source_links),
     semantic_identifier |-> chunk.semantic_identifier,
     section_continuation |-> chunk.section_continuation,
     boost |-> DEFAULT_BOOST,
     hidden |-> FALSE,
     document_sets |-> {},
     access_control_list |-> {"PUBLIC"}]

\* batch_generator(items, BATCH_SIZE): the first batch of a collection
FirstBatch(items) ==
    IF Cardinality(items) <= BATCH_SIZE THEN items
    ELSE CHOOSE b \in SUBSET items : Cardinality(b) = BATCH_SIZE

\* the identifiers the paginated scan "document_id contains doc" returns
GetVespaChunkIdsByDocumentId(index, doc) ==
    {id \in DOMAIN index : index[id].document_id = doc}

\* the index after a POST of the fields under the identifier
Post(index, id, fields) ==
    [i \in DOMAIN index \cup {id} |-> IF i = id THEN fields ELSE index[i]]

\* the index after a DELETE of each of the identifiers
Delete(index, ids) == [i \in DOMAIN index \ ids |-> index[i]]

(***************************************************************************)
(* index(): _clear_and_index_vespa_chunks.                                 *)
(***************************************************************************)
\* the chunk indices of a document among a set of chunks
ChunkIdsOf(cs, doc) == {chunk.chunk_id : chunk \in {c \in cs : c.document_id = doc}}

\* a complete chunk set: the indices 0..n-1
IsComplete(ids) == ids = 0..(Cardinality(ids) - 1)

\* how the chunks the returned call before supplied for a document relate to
\* the chunks the starting call supplies for it
PrevRelation(before, now) ==
    IF before = {} \/ now = {} THEN "none"
    ELSE IF before = now THEN "same"
    ELSE IF before \cap now = {} THEN "split"
    ELSE "other"

IndexInit ==
    /\ pc = "idle"
    /\ chunks = {}
    /\ pending = {}
    /\ existing_docs = {}
    /\ raised = FALSE
    /\ records = {}
    /\ sent = {}
    /\ pre = <<>>
    /\ prev = [doc \in Docs |-> "none"]
    /\ complete = TRUE
    /\ inserted = {}
    /\ failed_call = None

\* an existence check of every chunk
FirstChunksOfAll(cs) == cs

\* the chunks whose existence is checked
FirstChunks(cs) == {chunk \in cs : chunk.chunk_id = 0}

\* the caller enters index(chunks); the existence checks of the first chunks
\* are submitted to the pool
IndexStart(keys) ==
    /\ pc = "idle"
    /\ pc' = "exists"
    /\ chunks' = {Chunk(k[1], k[2]) : k \in keys}
    /\ pending' = FirstBatch(FirstChunks(chunks'))
    /\ existing_docs' = {}
    /\ raised' = FALSE
    /\ records' = {}
    /\ sent' = {}
    /\ pre' = vespa
    /\ prev' = [doc \in Docs |->
                  PrevRelation(ChunkIdsOf(chunks, doc), ChunkIdsOf(chunks', doc))]
    /\ complete' = (complete /\ \A doc \in Docs : IsComplete(ChunkIdsOf(chunks', doc)))
    /\ inserted' = {}
    /\ failed_call' = IF failed_call # None /\ ValueOf(failed_call).chunks = chunks'
                      THEN failed_call ELSE None
    /\ UNCHANGED <<vespa, notIndex>>

\* _does_document_exist answers 404 (False) or 200 (True)
DoesDocumentExist(chunk) ==
    /\ pc = "exists"
    /\ chunk \in pending
    /\ pending' = pending \ {chunk}
    /\ sent' = sent \cup {<<"GET", GetUuidFromChunk(chunk)>>}
    /\ existing_docs' =
         IF GetUuidFromChunk(chunk) \in DOMAIN vespa
         THEN existing_docs \cup {chunk.document_id}
         ELSE existing_docs
    /\ UNCHANGED <<vespa, pc, chunks, raised, records, pre, prev, complete, inserted, failed_call, notIndex>>

\* _does_document_exist raises after its retries (an unexpected status)
DoesDocumentExistRaises(chunk) ==
    /\ pc = "exists"
    /\ chunk \in pending
    /\ pending' = pending \ {chunk}
    /\ sent' = sent \cup {<<"GET", GetUuidFromChunk(chunk)>>}
    /\ raised' = TRUE
    /\ UNCHANGED <<vespa, pc, chunks, existing_docs, records, pre, prev, complete, inserted, failed_call, notIndex>>

\* every existence check has completed; the deletes of the existing documents
\* are submitted
ExistsBarrier ==
    /\ pc = "exists"
    /\ pending = {}
    /\ IF raised
       THEN pc' = "failed" /\ pending' = {}
       ELSE pc' = "delete" /\ pending' = FirstBatch(existing_docs)
    /\ UNCHANGED <<vespa, chunks, existing_docs, raised, records, sent, pre, prev, complete, inserted, failed_call, notIndex>>

\* a purge that scans the chunk ids of the document and deletes none of them
DeleteVespaDocChunksKeepsAll(doc) ==
    /\ pc = "delete"
    /\ doc \in pending
    /\ pending' = pending \ {doc}
    /\ UNCHANGED <<vespa, pc, chunks, existing_docs, raised, records, sent, pre, prev, complete, inserted, failed_call, notIndex>>

\* _delete_vespa_doc_chunks: scan the chunk ids of the document, delete each
DeleteVespaDocChunks(doc) ==
    /\ pc = "delete"
    /\ doc \in pending
    /\ pending' = pending \ {doc}
    /\ sent' = sent \cup {<<"DELETE", id>> : id \in GetVespaChunkIdsByDocumentId(vespa, doc)}
    /\ vespa' = Delete(vespa, GetVespaChunkIdsByDocumentId(vespa, doc))
    /\ UNCHANGED <<pc, chunks, existing_docs, raised, records, pre, prev, complete, inserted, failed_call, notIndex>>

\* _delete_vespa_doc_chunks raises after its retries
DeleteVespaDocChunksRaises(doc) ==
    /\ pc = "delete"
    /\ doc \in pending
    /\ pending' = pending \ {doc}
    /\ raised' = TRUE
    /\ UNCHANGED <<vespa, pc, chunks, existing_docs, records, sent, pre, prev, complete, inserted, failed_call, notIndex>>

\* a barrier that does not wait for the deletes: the inserts are submitted
\* while deletes are still to run, and these are dropped
DeleteBarrierWithoutWait ==
    /\ pc = "delete"
    /\ IF raised
       THEN pc' = "failed" /\ pending' = {}
       ELSE pc' = "insert" /\ pending' = FirstBatch(chunks)
    /\ UNCHANGED <<vespa, chunks, existing_docs, raised, records, sent, pre, prev, complete,
                   inserted, failed_call, notIndex>>

\* every delete has completed; the inserts of the chunks are submitted
DeleteBarrier ==
    /\ pc = "delete"
    /\ pending = {}
    /\ IF raised
       THEN pc' = "failed" /\ pending' = {}
       ELSE pc' = "insert" /\ pending' = FirstBatch(chunks)
    /\ UNCHANGED <<vespa, chunks, existing_docs, raised, records, sent, pre, prev, complete, inserted, failed_call, notIndex>>

\* _index_vespa_chunk: POST the field map under the chunk's identifier
IndexVespaChunk(chunk) ==
    /\ pc = "insert"
    /\ chunk \in pending
    /\ pending' = pending \ {chunk}
    /\ sent' = sent \cup {<<"POST", GetUuidFromChunk(chunk)>>}
    /\ vespa' = Post(vespa, GetUuidFromChunk(chunk), VespaDocumentFields(chunk))
    /\ inserted' = inserted \cup {GetUuidFromChunk(chunk)}
    /\ UNCHANGED <<pc, chunks, existing_docs, raised, records, pre, prev, complete, failed_call,
                   notIndex>>

\* _index_vespa_chunk raises after its retries: every POST was rejected
IndexVespaChunkRaises(chunk) ==
    /\ pc = "insert"
    /\ chunk \in pending
    /\ pending' = pending \ {chunk}
    /\ sent' = sent \cup {<<"POST", GetUuidFromChunk(chunk)>>}
    /\ raised' = TRUE
    /\ UNCHANGED <<vespa, pc, chunks, existing_docs, records, pre, prev, complete, inserted, failed_call, notIndex>>

\* insertion records that report every document of the call as existing
InsertionRecordsAllExisting(cs, existing) ==
    {[document_id |-> doc, already_existed |-> TRUE] :
        doc \in {chunk.document_id : chunk \in cs}}

\* the DocumentInsertionRecords of a call
InsertionRecords(cs, existing) ==
    {[document_id |-> doc, already_existed |-> doc \in existing] :
        doc \in {chunk.document_id : chunk \in cs}}

\* every insert has completed; the call returns its records, or raises
InsertBarrier ==
    /\ pc = "insert"
    /\ pending = {}
    /\ IF raised
       THEN /\ pc' = "failed"
            /\ records' = {}
            /\ failed_call' = IF failed_call # None THEN failed_call
                              ELSE Some([chunks |-> chunks, pre |-> pre])
       ELSE /\ pc' = "done"
            /\ records' = InsertionRecords(chunks, existing_docs)
            /\ UNCHANGED failed_call
    /\ UNCHANGED <<vespa, chunks, pending, existing_docs, raised, sent, pre, prev, complete,
                   inserted, notIndex>>

\* the call has returned or raised: its caller goes on, and may call again; of
\* the call, the history keeps the chunks it supplied if it returned
IndexReturn ==
    /\ pc \in {"done", "failed"}
    /\ pc' = "idle"
    /\ chunks' = IF pc = "done" THEN chunks ELSE {}
    /\ pending' = {}
    /\ existing_docs' = {}
    /\ raised' = FALSE
    /\ records' = {}
    /\ sent' = {}
    /\ pre' = <<>>
    /\ prev' = [doc \in Docs |-> "none"]
    /\ inserted' = {}
    /\ failed_call' = IF pc = "done" THEN None ELSE failed_call
    /\ UNCHANGED <<vespa, complete, notIndex>>

(***************************************************************************)
(* update(): VespaIndex.update and VespaIndex._apply_updates_batched.      *)
(***************************************************************************)
\* the fields an UpdateRequest may set, and the values the callers supply
BoostValues == {None, Some(3)}
DocumentSetsValues == {None, Some({"set_1"})}
AccessValues == {None, Some({"user_1"})}
HiddenValues == {None, Some(TRUE)}

\* DocumentAccess.to_acl: the ACL entries of an access
ToAcl(access) == access

\* an UpdateRequest
UpdateRequest(document_ids, boost, document_sets, access, hidden) ==
    [document_ids |-> document_ids, boost |-> boost, document_sets |-> document_sets,
     access |-> access, hidden |-> hidden]

\* update_dict["fields"] of a request: field name -> assigned value, for the
\* fields that are not None
UpdateDictFields(request) ==
    LET f1 == IF request.boost # None
              THEN ("boost" :> ValueOf(request.boost)) ELSE <<>>
        f2 == IF request.document_sets # None
              THEN f1 @@ ("document_sets" :> ValueOf(request.document_sets)) ELSE f1
        f3 == IF request.access # None
              THEN f2 @@ ("access_control_list" :> ToAcl(ValueOf(request.access))) ELSE f2
        f4 == IF request.hidden # None
              THEN f3 @@ ("hidden" :> ValueOf(request.hidden)) ELSE f3
    IN  f4

\* the chunk ids of a document as the scan returns them, by chunk index
ScannedChunkIds(index, doc) ==
    LET ids == GetVespaChunkIdsByDocumentId(index, doc)
        n == Cardinality(ids)
    IN  CHOOSE seq \in [1..n -> ids] :
            \A i, j \in 1..n : i < j => index[seq[i]].chunk_id < index[seq[j]].chunk_id

\* the _VespaUpdateRequests of one document of a request
DocumentUpdates(index, doc, fields) ==
    LET ids == ScannedChunkIds(index, doc)
    IN  [i \in 1..Len(ids) |->
            [document_id |-> doc, url |-> ids[i], update_request |-> fields]]

\* a loop that stops after the first document of a request
RequestUpdatesFirstDocument(index, document_ids, fields) ==
    IF document_ids = <<>> THEN <<>>
    ELSE DocumentUpdates(index, Head(document_ids), fields)

\* the _VespaUpdateRequests of the documents of a request, in order
RECURSIVE RequestUpdates(_, _, _)
RequestUpdates(index, document_ids, fields) ==
    IF document_ids = <<>> THEN <<>>
    ELSE DocumentUpdates(index, Head(document_ids), fields)
         \o RequestUpdates(index, Tail(document_ids), fields)

\* a loop that builds updates for a request that sets no field, too
RECURSIVE ProcessedUpdatesRequestsOfAll(_, _)
ProcessedUpdatesRequestsOfAll(index, requests) ==
    IF requests = <<>> THEN [updates |-> <<>>, scans |-> <<>>]
    ELSE LET fields == UpdateDictFields(Head(requests))
             rest == ProcessedUpdatesRequestsOfAll(index, Tail(requests))
         IN  [updates |-> RequestUpdates(index, Head(requests).document_ids, fields)
                          \o rest.updates,
              scans |-> Head(requests).document_ids \o rest.scans]

\* the loop of update() over its requests: processed_updates_requests, and the
\* documents whose chunk ids it scanned
RECURSIVE ProcessedUpdatesRequests(_, _)
ProcessedUpdatesRequests(index, requests) ==
    IF requests = <<>> THEN [updates |-> <<>>, scans |-> <<>>]
    ELSE LET fields == UpdateDictFields(Head(requests))
             rest == ProcessedUpdatesRequests(index, Tail(requests))
         IN  IF DOMAIN fields = {}
             THEN rest
             ELSE [updates |-> RequestUpdates(index, Head(requests).document_ids, fields)
                               \o rest.updates,
                   scans |-> Head(requests).document_ids \o rest.scans]

\* the index after a PUT of a partial update: each field of the update is assigned
Put(index, id, fields) ==
    IF id \notin DOMAIN index THEN index
    ELSE [index EXCEPT ![id] =
            [name \in DOMAIN @ |-> IF name \in DOMAIN fields THEN fields[name] ELSE @[name]]]

UpdateInit ==
    /\ upc = "idle"
    /\ update_requests = <<>>
    /\ batch_size = BATCH_SIZE
    /\ updates = <<>>
    /\ scans = <<>>
    /\ submitted = 0
    /\ inflight = {}
    /\ rejected = {}
    /\ puts = <<>>

\* the caller enters update(update_requests): the requests are turned into
\* _VespaUpdateRequests and handed to _apply_updates_batched
UpdateStart(requests, size) ==
    /\ upc = "idle"
    /\ upc' = "apply"
    /\ update_requests' = requests
    /\ batch_size' = size
    /\ updates' = ProcessedUpdatesRequests(vespa, requests).updates
    /\ scans' = ProcessedUpdatesRequests(vespa, requests).scans
    /\ submitted' = 0
    /\ inflight' = {}
    /\ rejected' = {}
    /\ puts' = [i \in DOMAIN updates' |-> 0]
    /\ UNCHANGED <<vespa, notUpdate>>

\* a loop over the batches that goes on to the next batch after a failure
SubmitBatchAfterFailure ==
    /\ upc = "apply"
    /\ inflight = {}
    /\ submitted < Len(updates)
    /\ LET last == IF submitted + batch_size < Len(updates)
                   THEN submitted + batch_size ELSE Len(updates)
       IN  /\ inflight' = (submitted + 1)..last
           /\ submitted' = last
    /\ UNCHANGED <<vespa, upc, update_requests, batch_size, updates, scans, rejected,
                   puts, notUpdate>>

\* the next batch of updates is submitted to the pool, once all the futures of
\* the batch before have been awaited without a failure
SubmitBatch ==
    /\ upc = "apply"
    /\ inflight = {}
    /\ rejected = {}
    /\ submitted < Len(updates)
    /\ LET last == IF submitted + batch_size < Len(updates)
                   THEN submitted + batch_size ELSE Len(updates)
       IN  /\ inflight' = (submitted + 1)..last
           /\ submitted' = last
    /\ UNCHANGED <<vespa, upc, update_requests, batch_size, updates, scans, rejected,
                   puts, notUpdate>>

\* _update_chunk: the PUT of a submitted update is sent and applied
UpdateChunk(i) ==
    /\ upc = "apply"
    /\ i \in inflight
    /\ inflight' = inflight \ {i}
    /\ vespa' = Put(vespa, updates[i].url, updates[i].update_request)
    /\ puts' = [puts EXCEPT ![i] = @ + 1]
    /\ UNCHANGED <<upc, update_requests, batch_size, updates, scans, submitted, rejected,
                   notUpdate>>

\* _update_chunk: the PUT of a submitted update is sent and answered with an
\* error status
UpdateChunkRejected(i) ==
    /\ upc = "apply"
    /\ i \in inflight
    /\ inflight' = inflight \ {i}
    /\ rejected' = rejected \cup {i}
    /\ puts' = [puts EXCEPT ![i] = @ + 1]
    /\ UNCHANGED <<vespa, upc, update_requests, batch_size, updates, scans, submitted,
                   notUpdate>>

\* raise_for_status has raised for an update of the batch and the pool has been
\* shut down: update() raises
UpdateRaises ==
    /\ upc = "apply"
    /\ inflight = {}
    /\ rejected # {}
    /\ upc' = "raised"
    /\ UNCHANGED <<vespa, update_requests, batch_size, updates, scans, submitted, inflight,
                   rejected, puts, notUpdate>>

\* every batch has been awaited: update() returns
UpdateReturns ==
    /\ upc = "apply"
    /\ inflight = {}
    /\ rejected = {}
    /\ submitted = Len(updates)
    /\ upc' = "done"
    /\ UNCHANGED <<vespa, update_requests, batch_size, updates, scans, submitted, inflight,
                   rejected, puts, notUpdate>>

(***************************************************************************)
(* _build_vespa_filters.  A string is the sequence of the lexemes of the   *)
(* query language it spells (a parenthesis, an operator, a double quote, a *)
(* name, a number, a run of text); the empty string is the empty sequence. *)
(***************************************************************************)
SecondsPerDay == 86400
\* datetime.now(timezone.utc) at the calls: NowDays days after the epoch, and
\* one tick later
NowDays == 100
Instants == {NowDays * SecondsPerDay * TicksPerSecond + d : d \in 0..1}

\* the members of DocumentSource and their values
DocumentSource == {"WEB", "SLACK"}
SourceValue(s) == IF s = "WEB" THEN <<"web">> ELSE <<"slack">>

\* an IndexFilters
IndexFilters(access_control_list, source_type, document_set, time_cutoff) ==
    [access_control_list |-> access_control_list, source_type |-> source_type,
     document_set |-> document_set, time_cutoff |-> time_cutoff]

\* [s.value for s in list]
SourceValues(list) == [i \in DOMAIN list |-> SourceValue(list[i])]

\* str.join: the elements of a list of strings with the separator between them
RECURSIVE Join(_, _)
Join(sep, elems) ==
    IF elems = <<>> THEN <<>>
    ELSE IF Len(elems) = 1 THEN Head(elems)
    ELSE Head(elems) \o sep \o Join(sep, Tail(elems))

\* f'{key} contains "{elem}"'
EqElem(key, elem) == <<key, " contains ", "\"">> \o elem \o <<"\"">>

\* an or-filter that keeps the empty entries of its list
BuildOrFiltersKeepEmpty(key, vals) ==
    IF vals = None THEN <<>>
    ELSE IF key = "" \/ ValueOf(vals) = <<>> THEN <<>>
    ELSE <<"(">>
         \o Join(<<" or ">>, [i \in DOMAIN ValueOf(vals) |-> EqElem(key, ValueOf(vals)[i])])
         \o <<")", " and ">>

\* _build_or_filters(key, vals)
BuildOrFilters(key, vals) ==
    IF vals = None THEN <<>>
    ELSE LET valid_vals == SelectSeq(ValueOf(vals), LAMBDA val : val # <<>>)
         IN  IF key = "" \/ valid_vals = <<>> THEN <<>>
             ELSE <<"(">>
                  \o Join(<<" or ">>, [i \in DOMAIN valid_vals |-> EqElem(key, valid_vals[i])])
                  \o <<")", " and ">>

\* int(cutoff.timestamp()) of an instant at or after the epoch
Timestamp(instant) == instant \div TicksPerSecond

\* _build_time_filter(cutoff), called at the instant at
BuildTimeFilter(cutoff, at) ==
    IF cutoff = None THEN <<>>
    ELSE LET include_untimed ==
                 at - UNTIMED_DOC_CUTOFF_DAYS * SecondsPerDay * TicksPerSecond > ValueOf(cutoff)
             cutoff_secs == Timestamp(ValueOf(cutoff))
         IN  IF include_untimed
             THEN <<"!", "(", DOC_UPDATED_AT, " < ", ToString(cutoff_secs), ")", " and ">>
             ELSE <<"(", DOC_UPDATED_AT, " >= ", ToString(cutoff_secs), ")", " and ">>

\* a hidden clause that does not look at include_hidden
HiddenFilterAlways(hidden) == <<"!", "(", HIDDEN, "=true", ")", " and ">>

\* the initial value of filter_str
HiddenFilter(hidden) ==
    IF ~hidden THEN <<"!", "(", HIDDEN, "=true", ")", " and ">> ELSE <<>>

\* the strings _build_vespa_filters appends to filter_str, in order
BuildVespaFiltersClauses(f, hidden, at) ==
    LET source_strs == IF f.source_type # None /\ ValueOf(f.source_type) # <<>>
                       THEN Some(SourceValues(ValueOf(f.source_type)))
                       ELSE None
    IN  [hidden |-> HiddenFilter(hidden),
         access_control_list |->
             IF f.access_control_list # None
             THEN BuildOrFilters(ACCESS_CONTROL_LIST, f.access_control_list)
             ELSE <<>>,
         source_type |-> BuildOrFilters(SOURCE_TYPE, source_strs),
         document_set |-> BuildOrFilters(DOCUMENT_SETS, f.document_set),
         time_cutoff |-> BuildTimeFilter(f.time_cutoff, at)]

FilterInit ==
    /\ fpc = "idle"
    /\ filters = IndexFilters(None, None, None, None)
    /\ include_hidden = FALSE
    /\ utcnow = 0
    /\ clauses = <<>>
    /\ filter_str = <<>>

\* _build_vespa_filters(filters, include_hidden) is called and returns
BuildVespaFilters ==
    /\ fpc = "idle"
    /\ fpc' = "built"
    /\ clauses' = BuildVespaFiltersClauses(filters, include_hidden, utcnow)
    /\ filter_str' = clauses'.hidden \o clauses'.access_control_list
                     \o clauses'.source_type \o clauses'.document_set
                     \o clauses'.time_cutoff
    /\ UNCHANGED <<filters, include_hidden, utcnow, notFilter>>

(***************************************************************************)
(* _process_dynamic_summary.  A summary is the sequence of its characters, *)
(* the separator "<sep />" being one element of it.                        *)
(***************************************************************************)
SEP == "<sep />"
Ellipsis == <<".", ".", ".">>
Whitespace == {" "}
\* string.punctuation, but for the quotation marks and the backslash
Punctuation ==
    {"!", "#", "$", "%", "&", "(", ")", "*", "+", ",", "-", ".", "/", ":",
     ";", "<", "=", ">", "?", "@", "[", "]", "^", "_", "{", "|", "}", "~"}

\* dynamic_summary.split("<sep />")
RECURSIVE SplitSections(_)
SplitSections(str) ==
    IF \A i \in DOMAIN str : str[i] # SEP THEN <<str>>
    ELSE LET first == CHOOSE i \in DOMAIN str :
                          str[i] = SEP /\ \A j \in 1..(i - 1) : str[j] # SEP
         IN  <<SubSeq(str, 1, first - 1)>> \o SplitSections(SubSeq(str, first + 1, Len(str)))

\* section[:n]
Slice(section, n) ==
    IF n >= 0 THEN SubSeq(section, 1, IF n < Len(section) THEN n ELSE Len(section))
    ELSE SubSeq(section, 1, Len(section) + n)

\* a strip that leaves the leading whitespace
LStripKeepsAll(section) == section

\* section.lstrip()
RECURSIVE LStrip(_)
LStrip(section) ==
    IF section # <<>> /\ Head(section) \in Whitespace THEN LStrip(Tail(section))
    ELSE section

\* section.find(" "): the index of the first space, from 0, or -1
Find(section) ==
    IF \A i \in DOMAIN section : section[i] # " " THEN -1
    ELSE (CHOOSE i \in DOMAIN section :
              section[i] = " " /\ \A j \in 1..(i - 1) : section[j] # " ") - 1

\* section.rsplit(" ", 1)[0]: what stands before the last space
RSplit(section) ==
    IF \A i \in DOMAIN section : section[i] # " " THEN section
    ELSE LET last == CHOOSE i \in DOMAIN section :
                         section[i] = " " /\ \A j \in (i + 1)..Len(section) : section[j] # " "
         IN  SubSeq(section, 1, last - 1)

\* processed_summary[-1] += "..."
EllipsisOnLast(processed) ==
    IF processed = <<>> THEN processed
    ELSE [processed EXCEPT ![Len(processed)] = @ \o Ellipsis]

\* the loop of _process_dynamic_summary over the sections
RECURSIVE ProcessSections(_, _, _, _)
ProcessSections(sections, current_length, processed, max) ==
    IF sections = <<>> THEN processed
    ELSE IF current_length + Len(Head(sections)) >= max
    THEN LET cut == LStrip(Slice(Head(sections), max - current_length))
         IN  IF Find(cut) = -1 THEN EllipsisOnLast(processed)
             ELSE LET word == RSplit(cut)
                      bare == IF word[Len(word)] \in Punctuation
                              THEN SubSeq(word, 1, Len(word) - 1) ELSE word
                  IN  Append(processed, bare \o Ellipsis)
    ELSE ProcessSections(Tail(sections), current_length + Len(Head(sections)),
                         Append(processed, Head(sections)), max)

\* the loop raises IndexError: the truncated section holds a space and nothing
\* before its last space, so that summary_section[-1] is read of ""
RECURSIVE SectionsRaise(_, _, _)
SectionsRaise(sections, current_length, max) ==
    IF sections = <<>> THEN FALSE
    ELSE IF current_length + Len(Head(sections)) >= max
    THEN LET cut == LStrip(Slice(Head(sections), max - current_length))
         IN  Find(cut) # -1 /\ RSplit(cut) = <<>>
    ELSE SectionsRaise(Tail(sections), current_length + Len(Head(sections)), max)

\* _process_dynamic_summary(dynamic_summary, max_summary_length) raises
ProcessDynamicSummaryRaises(str, max) ==
    str # <<>> /\ SectionsRaise(SplitSections(str), 0, max)

\* _process_dynamic_summary(dynamic_summary, max_summary_length): what it
\* returns, nothing being returned when it raises
ProcessDynamicSummaryOf(str, max) ==
    IF str = <<>> \/ ProcessDynamicSummaryRaises(str, max) THEN <<>>
    ELSE ProcessSections(SplitSections(str), 0, <<>>, max)

\* the fragments joined with the separator
JoinFragments(fragments) == Join(<<SEP>>, fragments)

SummaryInit ==
    /\ spc = "idle"
    /\ dynamic_summary = <<>>
    /\ max_summary_length = 1
    /\ processed_summary = <<>>
    /\ reprocessed_summary = <<>>
    /\ summary_raised = FALSE

\* _process_dynamic_summary is called on the summary and returns
ProcessDynamicSummary ==
    /\ spc = "idle"
    /\ spc' = "processed"
    /\ processed_summary' = ProcessDynamicSummaryOf(dynamic_summary, max_summary_length)
    /\ summary_raised' = ProcessDynamicSummaryRaises(dynamic_summary, max_summary_length)
    /\ UNCHANGED <<dynamic_summary, max_summary_length, reprocessed_summary, notSummary>>

\* _process_dynamic_summary is called on its own output, joined
ReprocessDynamicSummary ==
    /\ spc = "processed"
    /\ ~summary_raised
    /\ spc' = "reprocessed"
    /\ reprocessed_summary' =
           ProcessDynamicSummaryOf(JoinFragments(processed_summary), max_summary_length)
    /\ summary_raised' =
           ProcessDynamicSummaryRaises(JoinFragments(processed_summary), max_summary_length)
    /\ UNCHANGED <<dynamic_summary, max_summary_length, processed_summary, notSummary>>

(***************************************************************************)
(* The chunk codec: the field map of _index_vespa_chunk and                *)
(* _vespa_hit_to_inference_chunk.                                          *)
(***************************************************************************)
\* fields.get(name, default)
Get(fields, name, default) == IF name \in DOMAIN fields THEN fields[name] ELSE default

\* the fields _vespa_hit_to_inference_chunk reads with fields[name]
RequiredFields ==
    {"chunk_id", "content", "section_continuation", "document_id", "source_type",
     "semantic_identifier"}

\* int(k) of a key of the source links
IntOfKey(key) == CHOOSE n \in 0..9 : ToString(n) = key

\* the source links of a hit, with integer keys
SourceLinksOf(fields) ==
    LET source_links == Get(fields, "source_links", [json |-> <<>>])
        unprocessed == JsonLoads(source_links)
    IN  [k \in {IntOfKey(key) : key \in DOMAIN unprocessed} |->
            unprocessed[ToString(k)]]

\* _vespa_hit_to_inference_chunk(hit): the InferenceChunk, or the KeyError of a
\* field read with fields[name] that the hit does not have
VespaHitToInferenceChunk(h) ==
    LET fields == h.fields
    IN  IF RequiredFields \subseteq DOMAIN fields
        THEN [raised |-> "",
              chunk |-> Some([chunk_id |-> fields["chunk_id"],
                              blurb |-> Get(fields, "blurb", ""),
                              content |-> fields["content"],
                              source_links |-> SourceLinksOf(fields),
                              section_continuation |-> fields["section_continuation"],
                              document_id |-> fields["document_id"],
                              source_type |-> fields["source_type"],
                              semantic_identifier |-> fields["semantic_identifier"],
                              boost |-> Get(fields, "boost", BOOST_OF_HIT_WITHOUT_BOOST),
                              hidden |-> Get(fields, "hidden", FALSE),
                              match_highlights |->
                                  ProcessDynamicSummaryOf(
                                      Get(fields, "content_summary", fields["content"]),
                                      DEFAULT_MAX_SUMMARY_LENGTH)])]
        ELSE [raised |-> "KeyError", chunk |-> None]

\* a field map without some of its fields
Without(fields, names) == [name \in DOMAIN fields \ names |-> fields[name]]

CodecInit ==
    /\ cpc = "idle"
    /\ codec_chunk = Chunk("doc_a", 0)
    /\ lost = {}
    /\ wire = <<>>
    /\ hit = <<>>
    /\ inference_chunk = <<>>

\* the chunk is encoded to the field map _index_vespa_chunk posts
EncodeChunk ==
    /\ cpc = "idle"
    /\ cpc' = "encoded"
    /\ wire' = VespaDocumentFields(codec_chunk)
    /\ UNCHANGED <<codec_chunk, lost, hit, inference_chunk, notCodec>>

\* the index returns the chunk as a hit
ReturnHit ==
    /\ cpc = "encoded"
    /\ cpc' = "hit"
    /\ hit' = [fields |-> Without(wire, lost)]
    /\ UNCHANGED <<codec_chunk, lost, wire, inference_chunk, notCodec>>

\* _vespa_hit_to_inference_chunk is called on the hit
DecodeHit ==
    /\ cpc = "hit"
    /\ cpc' = "decoded"
    /\ inference_chunk' = VespaHitToInferenceChunk(hit)
    /\ UNCHANGED <<codec_chunk, lost, wire, hit, notCodec>>

(***************************************************************************)
(* The calls under @retry(tries=3, delay=1, backoff=2): _query_vespa and   *)
(* _index_vespa_chunk.  An attempt is one run of the function body; the    *)
(* decorator catches every exception of an attempt, and sleeps and calls   *)
(* again while it has tries left.                                          *)
(***************************************************************************)
\* not str.strip(): the string holds nothing but whitespace
IsBlank(str) == \A i \in DOMAIN str : str[i] \in Whitespace

\* a filter that keeps every hit
FilteredHitsKeepsAll(hits) == hits

\* the hits of a response whose content field is present
FilteredHits(hits) == SelectSeq(hits, LAMBDA h : "content" \in DOMAIN h.fields)

\* [_vespa_hit_to_inference_chunk(hit) for hit in filtered_hits]
InferenceChunks(hits) ==
    [i \in DOMAIN FilteredHits(hits) |-> VespaHitToInferenceChunk(FilteredHits(hits)[i])]

RetriedInit ==
    /\ rpc = "call"
    /\ rcall = [fn |-> "_query_vespa", query |-> None]
    /\ tries = RETRY_TRIES
    /\ delay = RETRY_DELAY
    /\ sleeps = <<>>
    /\ attempts = 0
    /\ gets = 0
    /\ posts = 0
    /\ last_error = ""
    /\ response = <<>>
    /\ query_result = <<>>
    /\ exchanges = <<>>
    /\ returned_value = None

\* one attempt of _query_vespa(query_params); outcome is what the index
\* answers to the GET: None for an error status, or the hits of the response
QueryVespaAttempt(outcome) ==
    /\ rpc = "call"
    /\ rcall.fn = "_query_vespa"
    /\ attempts' = attempts + 1
    /\ IF rcall.query # None /\ IsBlank(ValueOf(rcall.query))
       THEN /\ rpc' = "failed"
            /\ last_error' = "ValueError"
            /\ UNCHANGED <<gets, response, query_result>>
       ELSE /\ gets' = gets + 1
            /\ IF outcome = None
               THEN /\ rpc' = "failed"
                    /\ last_error' = "HTTPError"
                    /\ UNCHANGED <<response, query_result>>
               ELSE /\ response' = ValueOf(outcome)
                    /\ LET decoded == InferenceChunks(ValueOf(outcome))
                       IN  IF \E i \in DOMAIN decoded : decoded[i].raised # ""
                           THEN /\ rpc' = "failed"
                                /\ last_error' = "KeyError"
                                /\ UNCHANGED query_result
                           ELSE /\ rpc' = "returned"
                                /\ last_error' = ""
                                /\ query_result' = [i \in DOMAIN decoded |->
                                                       ValueOf(decoded[i].chunk)]
    /\ UNCHANGED <<rcall, tries, delay, sleeps, posts, exchanges, returned_value, notRetried>>

\* a request of a mutation helper and the status of its answer
Exchange(attempt, method, cleaned, status) ==
    [attempt |-> attempt, method |-> method, cleaned |-> cleaned, status |-> status]

\* response.raise_for_status() raises: the status is an error status
IsErrorStatus(status) == status >= 400

\* a test that takes every client-error status for a validation error
IsClientError(status) == status \in 400..499

\* cast(Response, e.response).status_code != 400 does not hold: the POST is
\* sent again with the invalid unicode characters removed
IsValidationError(status) == status = 400

\* one attempt of _index_vespa_chunk(chunk); outcome is the statuses the index
\* answers with: to the POST and, if the cleaned fields are posted, to that POST
IndexVespaChunkAttempt(outcome) ==
    /\ rpc = "call"
    /\ rcall.fn = "_index_vespa_chunk"
    /\ attempts' = attempts + 1
    /\ IF rcall.tzinfo # None /\ ValueOf(rcall.tzinfo) # "utc"
       THEN /\ rpc' = "failed"
            /\ last_error' = "ValueError"
            /\ UNCHANGED <<posts, exchanges>>
       ELSE LET first == Exchange(attempts', "POST", FALSE, outcome[1])
                second == Exchange(attempts', "POST", TRUE, outcome[2])
            IN  IF ~IsErrorStatus(outcome[1])
                THEN /\ posts' = posts + 1
                     /\ exchanges' = Append(exchanges, first)
                     /\ rpc' = "returned"
                     /\ last_error' = ""
                ELSE IF ~IsValidationError(outcome[1])
                THEN /\ posts' = posts + 1
                     /\ exchanges' = Append(exchanges, first)
                     /\ rpc' = "failed"
                     /\ last_error' = "HTTPError"
                ELSE /\ posts' = posts + 2
                     /\ exchanges' = exchanges \o <<first, second>>
                     /\ rpc' = IF IsErrorStatus(outcome[2]) THEN "failed" ELSE "returned"
                     /\ last_error' = IF IsErrorStatus(outcome[2]) THEN "HTTPError" ELSE ""
    /\ UNCHANGED <<rcall, tries, delay, sleeps, gets, response, query_result, returned_value,
                   notRetried>>

\* an existence check that takes every 2xx status for "exists"
DoesDocumentExistOfAny2xx(status) ==
    IF status = 404 THEN Some(FALSE)
    ELSE IF status \notin 200..299 THEN None
    ELSE Some(TRUE)

\* what _does_document_exist makes of the status of the GET: False, True, or
\* (None) a RuntimeError
DoesDocumentExistOf(status) ==
    IF status = 404 THEN Some(FALSE)
    ELSE IF status # 200 THEN None
    ELSE Some(TRUE)

\* one attempt of _does_document_exist(doc_chunk_id)
DoesDocumentExistAttempt(status) ==
    /\ rpc = "call"
    /\ rcall.fn = "_does_document_exist"
    /\ attempts' = attempts + 1
    /\ gets' = gets + 1
    /\ exchanges' = Append(exchanges, Exchange(attempts', "GET", FALSE, status))
    /\ IF DoesDocumentExistOf(status) = None
       THEN /\ rpc' = "failed"
            /\ last_error' = "RuntimeError"
            /\ UNCHANGED returned_value
       ELSE /\ rpc' = "returned"
            /\ last_error' = ""
            /\ returned_value' = DoesDocumentExistOf(status)
    /\ UNCHANGED <<rcall, tries, delay, sleeps, posts, response, query_result, notRetried>>

\* one attempt of _delete_vespa_doc_chunks(document_id): the scan of the chunk
\* ids raises (None), or the chunks are deleted one after the other, up to the
\* first DELETE that is answered with an error status
DeleteVespaDocChunksAttempt(outcome) ==
    /\ rpc = "call"
    /\ rcall.fn = "_delete_vespa_doc_chunks"
    /\ attempts' = attempts + 1
    /\ gets' = gets + 1
    /\ IF outcome = None
       THEN /\ rpc' = "failed"
            /\ last_error' = "ConnectionError"
            /\ UNCHANGED exchanges
       ELSE LET statuses == ValueOf(outcome)
                failing == {i \in DOMAIN statuses : IsErrorStatus(statuses[i])}
                sent_deletes == IF failing = {} THEN Len(statuses)
                                ELSE CHOOSE i \in failing : \A j \in failing : i <= j
            IN  /\ exchanges' = exchanges \o
                       [i \in 1..sent_deletes |->
                           Exchange(attempts', "DELETE", FALSE, statuses[i])]
                /\ rpc' = IF failing = {} THEN "returned" ELSE "failed"
                /\ last_error' = IF failing = {} THEN "" ELSE "HTTPError"
    /\ UNCHANGED <<rcall, tries, delay, sleeps, posts, response, query_result, returned_value,
                   notRetried>>

\* one attempt of _inference_chunk_by_vespa_id(vespa_id): the GET is answered
\* with an error status (None) or with the hit of the chunk, which is decoded
InferenceChunkByVespaIdAttempt(outcome) ==
    /\ rpc = "call"
    /\ rcall.fn = "_inference_chunk_by_vespa_id"
    /\ attempts' = attempts + 1
    /\ gets' = gets + 1
    /\ LET decoded == IF outcome = None THEN [raised |-> "HTTPError", chunk |-> None]
                      ELSE VespaHitToInferenceChunk(ValueOf(outcome))
       IN  IF decoded.raised = ""
           THEN /\ rpc' = "returned"
                /\ last_error' = ""
                /\ returned_value' = decoded.chunk
           ELSE /\ rpc' = "failed"
                /\ last_error' = decoded.raised
                /\ UNCHANGED returned_value
    /\ UNCHANGED <<rcall, tries, delay, sleeps, posts, response, query_result, exchanges,
                   notRetried>>

\* a decorator that sleeps as long before each attempt
RetrySleepsWithoutBackoff ==
    /\ rpc = "failed"
    /\ tries > 1
    /\ tries' = tries - 1
    /\ sleeps' = Append(sleeps, delay)
    /\ delay' = delay
    /\ rpc' = "call"
    /\ UNCHANGED <<rcall, attempts, gets, posts, last_error, response, query_result,
                   exchanges, returned_value, notRetried>>

\* the decorator has caught the exception of an attempt and has tries left: it
\* sleeps, lengthens the next sleep and calls again
RetrySleeps ==
    /\ rpc = "failed"
    /\ tries > 1
    /\ tries' = tries - 1
    /\ sleeps' = Append(sleeps, delay)
    /\ delay' = delay * RETRY_BACKOFF
    /\ rpc' = "call"
    /\ UNCHANGED <<rcall, attempts, gets, posts, last_error, response, query_result,
                   exchanges, returned_value, notRetried>>

\* the decorator has caught the exception of its last attempt: it raises it
RetryRaises ==
    /\ rpc = "failed"
    /\ tries = 1
    /\ tries' = 0
    /\ rpc' = "raised"
    /\ UNCHANGED <<rcall, delay, sleeps, attempts, gets, posts, last_error, response,
                   query_result, exchanges, returned_value, notRetried>>

(***************************************************************************)
(* id_based_retrieval(document_id, None, filters): the chunks of the       *)
(* document are scanned, each is fetched by its own call of                *)
(* _inference_chunk_by_vespa_id, itself under @retry, all of them in       *)
(* parallel, and the fetched chunks are sorted by chunk_id.                *)
(***************************************************************************)
\* list.sort(key=lambda chunk: chunk.chunk_id) inserts one chunk: after the
\* chunks whose chunk_id is not greater, the sort being stable
RECURSIVE InsertByChunkId(_, _)
InsertByChunkId(sorted, chunk) ==
    IF sorted = <<>> THEN <<chunk>>
    ELSE IF Head(sorted).chunk_id <= chunk.chunk_id
         THEN <<Head(sorted)>> \o InsertByChunkId(Tail(sorted), chunk)
         ELSE <<chunk>> \o sorted

\* a list left in the order it has
LeftInOrder(list) == list

\* inference_chunks.sort(key=lambda chunk: chunk.chunk_id)
RECURSIVE SortByChunkId(_)
SortByChunkId(list) ==
    IF list = <<>> THEN <<>>
    ELSE InsertByChunkId(SortByChunkId(SubSeq(list, 1, Len(list) - 1)), list[Len(list)])

IdBasedInit ==
    /\ ipc = "idle"
    /\ vespa_chunk_ids = {}
    /\ fetches = <<>>
    /\ inference_chunks = <<>>
    /\ id_result = <<>>

\* _get_vespa_chunk_ids_by_document_id returns the ids of the chunks that the
\* filters let through; without any, the call returns the empty list
IdBasedScan(ids) ==
    /\ ipc = "call"
    /\ vespa_chunk_ids' = ids
    /\ IF ids = {}
       THEN /\ ipc' = "returned"
            /\ id_result' = <<>>
            /\ UNCHANGED fetches
       ELSE /\ ipc' = "fetching"
            /\ fetches' = [id \in ids |-> [tries |-> RETRY_TRIES, state |-> "running"]]
            /\ UNCHANGED id_result
    /\ UNCHANGED <<inference_chunks, notIdBased>>

\* the scan raises: the index cannot be reached or answers with no result
IdBasedScanRaises ==
    /\ ipc = "call"
    /\ ipc' = "raised"
    /\ UNCHANGED <<vespa_chunk_ids, fetches, inference_chunks, id_result, notIdBased>>

\* one attempt of _inference_chunk_by_vespa_id(vespa_chunk_id): the GET of
\* the chunk answers with an error status (None) or with the chunk's hit,
\* which is decoded; the decorator calls again while it has tries left, and
\* the parallel run appends the chunk of a fetch that returns to its results
InferenceChunkByVespaId(id, outcome) ==
    /\ ipc = "fetching"
    /\ id \in vespa_chunk_ids
    /\ fetches[id].state = "running"
    /\ LET decoded == IF outcome = None THEN [raised |-> "HTTPError", chunk |-> None]
                      ELSE VespaHitToInferenceChunk(ValueOf(outcome))
       IN  IF decoded.raised = ""
           THEN /\ fetches' = [fetches EXCEPT ![id].state = "returned"]
                /\ inference_chunks' = Append(inference_chunks, ValueOf(decoded.chunk))
           ELSE /\ fetches' = [fetches EXCEPT ![id] =
                                  [tries |-> @.tries - 1,
                                   state |-> IF @.tries > 1 THEN "running" ELSE "raised"]]
                /\ UNCHANGED inference_chunks
    /\ UNCHANGED <<ipc, vespa_chunk_ids, id_result, notIdBased>>

\* every fetch has returned or raised: the results are sorted and returned
IdBasedReturn ==
    /\ ipc = "fetching"
    /\ \A id \in vespa_chunk_ids : fetches[id].state # "running"
    /\ id_result' = SortByChunkId(inference_chunks)
    /\ ipc' = "returned"
    /\ UNCHANGED <<vespa_chunk_ids, fetches, inference_chunks, notIdBased>>

(***************************************************************************)
(* The worker pool of the top-level calls.  The items of a call are        *)
(* counted, not told apart: a phase has so many tasks queued, so many      *)
(* running.  A ThreadPoolExecutor(max_workers=NUM_THREADS) runs at most    *)
(* NUM_THREADS tasks at a time; shutdown(wait=True), which the exit of a   *)
(* with-block calls too, returns when every submitted task has run.        *)
(***************************************************************************)
\* the phases of a call: index() checks, deletes and inserts; delete() is one
\* call of _delete_vespa_docs; the helpers may be called on their own
Phases(fn) ==
    IF fn = "index" THEN <<"exists", "delete", "insert">>
    ELSE IF fn = "update" THEN <<"update">>
    ELSE IF fn = "delete" THEN <<"delete">>
    ELSE IF fn = "_get_existing_documents_from_chunks" THEN <<"exists">>
    ELSE <<"insert">>

\* the call makes its pool itself, in a with-block, and hands it to its helpers
HasWithBlock(fn) == fn \in {"index", "update"}

\* the items of a phase of a call
Items(call, name, found) ==
    IF name = "exists" THEN call.first_chunks
    ELSE IF name = "delete" /\ call.fn = "index" THEN found
    ELSE call.chunks

\* batch_generator: the size of the next batch of so many items
NextBatch(items) == IF items < BATCH_SIZE THEN items ELSE BATCH_SIZE

\* ThreadPoolExecutor(max_workers=_NUM_THREADS)
NewExecutor(old, owner) ==
    [made |-> old.made + 1, owner |-> owner, alive |-> TRUE, shutdowns |-> 0]

\* executor.shutdown(wait=True)
Shutdown(pool) == [pool EXCEPT !.alive = FALSE, !.shutdowns = @ + 1]

\* a helper that shuts down the pool it was handed
HelperShutsDownAlways(external) == TRUE

\* the finally of a helper: if not external_executor: executor.shutdown
HelperShutsDown(external) == ~external

\* a pool that starts a task whatever the number of tasks it is running
HasWorkerAlways(busy) == TRUE

\* the pool has a worker for one more task
HasIdleWorker(busy) == busy < NUM_THREADS

\* a shutdown that does not wait for the submitted tasks
ShutdownReturnsAtOnce(waiting, busy) == TRUE

\* shutdown(wait=True) returns: no submitted task is waiting or running
ShutdownReturns(waiting, busy) == waiting = 0 /\ busy = 0

PoolInit ==
    /\ tpc = "idle"
    /\ tcall = [fn |-> "index", chunks |-> 0, first_chunks |-> 0]
    /\ phase = 1
    /\ todo = 0
    /\ executor = [made |-> 0, owner |-> "", alive |-> FALSE, shutdowns |-> 0]
    /\ external_executor = FALSE
    /\ queued = 0
    /\ running = 0
    /\ failed = FALSE
    /\ num_existing = 0
    /\ submitted_total = 0
    /\ finished_total = 0
    /\ unfinished_at_failure = 0

\* the calling thread enters the call: a call with a with-block makes the pool
PoolEnter ==
    /\ tpc = "enter"
    /\ tpc' = "loop"
    /\ executor' = IF HasWithBlock(tcall.fn) THEN NewExecutor(executor, "caller")
                   ELSE executor
    /\ todo' = Items(tcall, Phases(tcall.fn)[1], 0)
    /\ UNCHANGED <<tcall, phase, external_executor, queued, running, failed, num_existing,
                   submitted_total, finished_total, unfinished_at_failure, notPool>>

\* the calling thread submits the next batch of the phase: in a call with a
\* with-block, to the pool of the call; in a helper called without a pool, to a
\* pool the helper makes
PoolSubmit ==
    /\ tpc = "loop"
    /\ todo > 0 \/ (~HasWithBlock(tcall.fn) /\ executor.made = 0)
    /\ external_executor' = HasWithBlock(tcall.fn)
    /\ executor' = IF external_executor' THEN executor ELSE NewExecutor(executor, "helper")
    /\ IF executor'.alive
       THEN /\ queued' = NextBatch(todo)
            /\ todo' = todo - NextBatch(todo)
            /\ submitted_total' = submitted_total + NextBatch(todo)
            /\ tpc' = "await"
            /\ UNCHANGED failed
       ELSE /\ failed' = TRUE
            /\ tpc' = "unwind"
            /\ UNCHANGED <<queued, todo, submitted_total>>
    /\ UNCHANGED <<tcall, phase, running, num_existing, finished_total, unfinished_at_failure, notPool>>

\* a worker of the pool starts a queued task
TaskStarts ==
    /\ queued > 0
    /\ HasIdleWorker(running)
    /\ queued' = queued - 1
    /\ running' = running + 1
    /\ UNCHANGED <<tpc, tcall, phase, todo, executor, external_executor, failed, num_existing,
                   submitted_total, finished_total, unfinished_at_failure, notPool>>

\* a task returns; an existence check returns whether its chunk was found
TaskReturns(found) ==
    /\ running > 0
    /\ found => Phases(tcall.fn)[phase] = "exists"
    /\ running' = running - 1
    /\ finished_total' = finished_total + 1
    /\ num_existing' = IF found THEN num_existing + 1 ELSE num_existing
    /\ UNCHANGED <<tpc, tcall, phase, todo, executor, external_executor, queued, failed,
                   submitted_total, unfinished_at_failure, notPool>>

\* a task raises, its retries exhausted
TaskRaises ==
    /\ running > 0
    /\ running' = running - 1
    /\ finished_total' = finished_total + 1
    /\ failed' = TRUE
    /\ UNCHANGED <<tpc, tcall, phase, todo, executor, external_executor, queued, num_existing,
                   submitted_total, unfinished_at_failure, notPool>>

\* the as_completed loop comes to a future that raised: future.result() raises
\* in the calling thread
AwaitRaises ==
    /\ tpc = "await"
    /\ failed
    /\ tpc' = "unwind"
    /\ unfinished_at_failure' = queued + running
    /\ UNCHANGED <<tcall, phase, todo, executor, external_executor, queued, running, failed,
                   num_existing, submitted_total, finished_total, notPool>>

\* the as_completed loop ends, every future of the batch having returned: the
\* helper returns, and shuts the pool down if it made it
AwaitReturns ==
    /\ tpc = "await"
    /\ ~failed
    /\ queued = 0
    /\ running = 0
    /\ executor' = IF HelperShutsDown(external_executor) THEN Shutdown(executor)
                   ELSE executor
    /\ tpc' = "loop"
    /\ UNCHANGED <<tcall, phase, todo, external_executor, queued, running, failed, num_existing,
                   submitted_total, finished_total, unfinished_at_failure, notPool>>

\* the loop over the batches of a phase has ended: the next phase begins
PoolNextPhase ==
    /\ tpc = "loop"
    /\ todo = 0
    /\ HasWithBlock(tcall.fn) \/ executor.made > 0
    /\ phase < Len(Phases(tcall.fn))
    /\ phase' = phase + 1
    /\ todo' = Items(tcall, Phases(tcall.fn)[phase + 1], num_existing)
    /\ UNCHANGED <<tpc, tcall, executor, external_executor, queued, running, failed,
                   num_existing, submitted_total, finished_total, unfinished_at_failure, notPool>>

\* the last phase has ended: the with-block, if any, shuts its pool down and
\* the call returns
PoolReturns ==
    /\ tpc = "loop"
    /\ todo = 0
    /\ HasWithBlock(tcall.fn) \/ executor.made > 0
    /\ phase = Len(Phases(tcall.fn))
    /\ executor' = IF HasWithBlock(tcall.fn) THEN Shutdown(executor) ELSE executor
    /\ tpc' = "returned"
    /\ UNCHANGED <<tcall, phase, todo, external_executor, queued, running, failed, num_existing,
                   submitted_total, finished_total, unfinished_at_failure, notPool>>

\* the exception leaves the helper, through its finally, and the with-block, if
\* any: the pool is shut down by who made it, which waits for the submitted
\* tasks, and the call raises
PoolRaises ==
    /\ tpc = "unwind"
    /\ ShutdownReturns(queued, running)
    /\ LET left == IF HelperShutsDown(external_executor) THEN Shutdown(executor)
                   ELSE executor
       IN  executor' = IF HasWithBlock(tcall.fn) THEN Shutdown(left) ELSE left
    /\ tpc' = "raised"
    /\ UNCHANGED <<tcall, phase, todo, external_executor, queued, running, failed, num_existing,
                   submitted_total, finished_total, unfinished_at_failure, notPool>>

(***************************************************************************)
(* The paginated scan of the chunk ids of a document and the deletion of   *)
(* the document: _get_vespa_chunk_ids_by_document_id and                   *)
(* _delete_vespa_doc_chunks.  A document id is a sequence of lexemes of    *)
(* the query language; the index maps <<document id, chunk index>> to the  *)
(* fields of the chunk.  The engine reads the predicate the code sends: a  *)
(* single quote ends the quotation the single quote before it began.       *)
(***************************************************************************)
\* the predicate of the yql, filters_str being empty:
\* f"document_id contains '{document_id}'"
ScanPredicate(id) == <<"document_id", " contains ", "'">> \o id \o <<"'">>

\* the lexemes of a quotation: those before the first single quote
RECURSIVE SingleQuoted(_)
SingleQuoted(str) ==
    IF str = <<>> \/ Head(str) = "'" THEN <<>>
    ELSE <<Head(str)>> \o SingleQuoted(Tail(str))

\* the engine reads a predicate: the values a document id may equal, or None
\* when the predicate is malformed
RECURSIVE PredicateValues(_)
PredicateValues(str) ==
    IF Len(str) < 4 \/ SubSeq(str, 1, 3) # <<"document_id", " contains ", "'">> THEN None
    ELSE LET value == SingleQuoted(SubSeq(str, 4, Len(str)))
             after == SubSeq(str, 4 + Len(value), Len(str))
         IN  IF after = <<>> THEN None
             ELSE IF Tail(after) = <<>> THEN Some({value})
             ELSE IF Head(Tail(after)) # " or " THEN None
             ELSE LET more == PredicateValues(Tail(Tail(after)))
                  IN  IF more = None THEN None ELSE Some({value} \cup ValueOf(more))

\* the document ids of the index, in the order the engine ranks their chunks:
\* two plain ids, an id with an apostrophe, and an id that closes the quotation
\* and goes on with a second comparison
ScanDocumentIds ==
    <<  <<"a">>, <<"b">>, <<"a", "'", "s">>,
        <<"a", "'", " or ", "document_id", " contains ", "'", "b">>  >>

\* the rank of a chunk among the hits: by document, then by chunk index
Rank(id) ==
    (CHOOSE i \in DOMAIN ScanDocumentIds : ScanDocumentIds[i] = id[1]) * (MaxScanChunks + 2)
        + id[2]

\* chunk ids in rank order
RECURSIVE InRankOrder(_)
InRankOrder(ids) ==
    IF ids = {} THEN <<>>
    ELSE LET first == CHOOSE id \in ids : \A other \in ids : Rank(id) <= Rank(other)
         IN  <<first>> \o InRankOrder(ids \ {first})

\* the hits of a predicate on an index, in rank order; a malformed predicate is
\* answered with an error and no children
ScanHits(index, predicate) ==
    LET values == PredicateValues(predicate)
    IN  IF values = None THEN <<>>
        ELSE InRankOrder({id \in DOMAIN index : index[id].document_id \in ValueOf(values)})

\* results["root"].get("children", []) of the page at an offset
ScanPageHits(index, predicate, from, hits) ==
    LET all == ScanHits(index, predicate)
        last == IF from + hits < Len(all) THEN from + hits ELSE Len(all)
    IN  SubSeq(all, from + 1, last)

\* if len(hits) < hits_per_page: break
IsLastPage(hits, page_size) == Len(hits) < page_size

ScanInit ==
    /\ gpc = "idle"
    /\ document_id = <<>>
    /\ hits_per_page = BATCH_SIZE
    /\ offset = 0
    /\ doc_chunk_ids = <<>>
    /\ deletes = <<>>
    /\ scan_attempts = 0
    /\ pages = 0
    /\ scanned = <<>>

\* one turn of the while loop: a page is requested, its ids are appended, the
\* offset advances by the page size, and a short page ends the scan
ScanPage ==
    /\ gpc = "scan"
    /\ LET hits == ScanPageHits(vespa, ScanPredicate(document_id), offset, hits_per_page)
       IN  /\ doc_chunk_ids' = doc_chunk_ids \o hits
           /\ gpc' = IF IsLastPage(hits, hits_per_page) THEN "delete" ELSE "scan"
    /\ offset' = offset + hits_per_page
    /\ pages' = pages + 1
    /\ UNCHANGED <<vespa, document_id, hits_per_page, deletes, scan_attempts, scanned, notScan>>

\* the next DELETE of the for loop: on an error status raise_for_status raises
\* and the chunk stays; the DELETE of an id the index does not hold changes
\* nothing
DeleteChunk(status) ==
    /\ gpc = "delete"
    /\ Len(deletes) < Len(doc_chunk_ids)
    /\ LET chunk_id == doc_chunk_ids[Len(deletes) + 1]
       IN  /\ deletes' = Append(deletes, chunk_id)
           /\ vespa' = IF IsErrorStatus(status) THEN vespa ELSE Delete(vespa, {chunk_id})
    /\ gpc' = IF IsErrorStatus(status) THEN "failed" ELSE "delete"
    /\ UNCHANGED <<document_id, hits_per_page, offset, doc_chunk_ids, scan_attempts, pages,
                   scanned, notScan>>

\* the for loop has ended: _delete_vespa_doc_chunks returns
DeleteChunksReturns ==
    /\ gpc = "delete"
    /\ Len(deletes) = Len(doc_chunk_ids)
    /\ gpc' = "returned"
    /\ UNCHANGED <<vespa, document_id, hits_per_page, offset, doc_chunk_ids, deletes,
                   scan_attempts, pages, scanned, notScan>>

\* @retry: the failed attempt is followed by the next, which scans again
DeleteChunksRetries ==
    /\ gpc = "failed"
    /\ scan_attempts < RETRY_TRIES
    /\ scan_attempts' = scan_attempts + 1
    /\ gpc' = "scan"
    /\ offset' = 0
    /\ doc_chunk_ids' = <<>>
    /\ deletes' = <<>>
    /\ pages' = 0
    /\ scanned' = vespa
    /\ UNCHANGED <<vespa, document_id, hits_per_page, notScan>>

\* @retry: the last attempt has failed and its exception is raised
DeleteChunksRaises ==
    /\ gpc = "failed"
    /\ scan_attempts = RETRY_TRIES
    /\ gpc' = "raised"
    /\ UNCHANGED <<vespa, document_id, hits_per_page, offset, doc_chunk_ids, deletes,
                   scan_attempts, pages, scanned, notScan>>

\* another task deletes a chunk the scan has returned before this task does:
\* _delete_vespa_docs runs one task for each entry of document_ids
OtherTaskDeletes(chunk_id) ==
    /\ gpc = "delete"
    /\ chunk_id \in DOMAIN vespa
    /\ \E i \in DOMAIN doc_chunk_ids : i > Len(deletes) /\ doc_chunk_ids[i] = chunk_id
    /\ vespa' = Delete(vespa, {chunk_id})
    /\ UNCHANGED <<scVars, notScan>>

(***************************************************************************)
(* The ranking inputs of the retrieval methods: the params each method     *)
(* hands to _query_vespa.  DOC_TIME_DECAY and HYBRID_ALPHA are configured  *)
(* outside this file; numbers are integers of one fixed unit.              *)
(***************************************************************************)
\* "input.query(decay_factor)": str(DOC_TIME_DECAY * time_decay_multiplier)
DecayFactor(doc_time_decay, time_decay_multiplier) ==
    ToString(doc_time_decay * time_decay_multiplier)

\* a blend weight that is the configured default whatever the caller gave
HybridAlphaOfDefault(hybrid_alpha, default) == default

\* "input.query(alpha)": hybrid_alpha if hybrid_alpha is not None else HYBRID_ALPHA
HybridAlpha(hybrid_alpha, default) ==
    IF hybrid_alpha # None THEN ValueOf(hybrid_alpha) ELSE default

\* the ranking part of params
RankingParams(profile, decay_factor, alpha) ==
    [ranking_profile |-> profile, decay_factor |-> decay_factor, alpha |-> alpha]

RetrievalInit ==
    /\ qpc = "idle"
    /\ retrieval_call = [fn |-> "", time_decay_multiplier |-> None, hybrid_alpha |-> None]
    /\ configured = [DOC_TIME_DECAY |-> 0, HYBRID_ALPHA |-> 0]
    /\ query_params = RankingParams("", None, None)

\* keyword_retrieval builds its params
KeywordRetrieval ==
    /\ qpc = "call"
    /\ retrieval_call.fn = "keyword_retrieval"
    /\ query_params' =
          RankingParams("keyword_search",
                        Some(DecayFactor(configured.DOC_TIME_DECAY,
                                         ValueOf(retrieval_call.time_decay_multiplier))),
                        None)
    /\ qpc' = "sent"
    /\ UNCHANGED <<retrieval_call, configured, notRetrieval>>

\* semantic_retrieval builds its params
SemanticRetrieval ==
    /\ qpc = "call"
    /\ retrieval_call.fn = "semantic_retrieval"
    /\ query_params' =
          RankingParams("semantic_search",
                        Some(DecayFactor(configured.DOC_TIME_DECAY,
                                         ValueOf(retrieval_call.time_decay_multiplier))),
                        None)
    /\ qpc' = "sent"
    /\ UNCHANGED <<retrieval_call, configured, notRetrieval>>

\* hybrid_retrieval builds its params
HybridRetrieval ==
    /\ qpc = "call"
    /\ retrieval_call.fn = "hybrid_retrieval"
    /\ query_params' =
          RankingParams("hybrid_search",
                        Some(DecayFactor(configured.DOC_TIME_DECAY,
                                         ValueOf(retrieval_call.time_decay_multiplier))),
                        Some(HybridAlpha(retrieval_call.hybrid_alpha, configured.HYBRID_ALPHA)))
    /\ qpc' = "sent"
    /\ UNCHANGED <<retrieval_call, configured, notRetrieval>>

\* admin_retrieval builds its params: it has no time_decay_multiplier
AdminRetrieval ==
    /\ qpc = "call"
    /\ retrieval_call.fn = "admin_retrieval"
    /\ query_params' = RankingParams("admin_search", None, None)
    /\ qpc' = "sent"
    /\ UNCHANGED <<retrieval_call, configured, notRetrieval>>

(***************************************************************************)
(* The Slack listener: process_slack_event, called by the socket-mode      *)
(* client for each request it receives.                                    *)
(***************************************************************************)
\* the handler process_slack_event dispatches a request to, or "" for none
HandlerOf(req) ==
    IF req.type = "interactive" /\ req.payload_type = "block_actions" THEN "process_feedback"
    ELSE IF req.type = "events_api" \/ req.type = "slash_commands" THEN "process_message"
    ELSE ""

SlackInit ==
    /\ slack_requests = <<>>
    /\ lpc = <<>>
    /\ acks = <<>>
    /\ handler = <<>>
    /\ handler_failed = <<>>
    /\ logged = <<>>

\* acknowledge_message: the response is sent on the socket, before the try;
\* a send that raises takes process_slack_event with it
AcknowledgeMessage(i, delivered) ==
    /\ lpc[i] = "received"
    /\ acks' = [acks EXCEPT ![i] = @ + 1]
    /\ lpc' = [lpc EXCEPT ![i] = IF delivered THEN "acknowledged" ELSE "raised"]
    /\ UNCHANGED <<slack_requests, handler, handler_failed, logged, notSlack>>

\* the try block dispatches on the type of the request: a handler starts, or
\* the function falls through and returns
ProcessSlackEventDispatches(i) ==
    /\ lpc[i] = "acknowledged"
    /\ handler' = [handler EXCEPT ![i] = HandlerOf(slack_requests[i])]
    /\ lpc' = [lpc EXCEPT ![i] = IF HandlerOf(slack_requests[i]) = "" THEN "returned"
                                 ELSE "handling"]
    /\ UNCHANGED <<slack_requests, acks, handler_failed, logged, notSlack>>

\* the handler returns and process_slack_event returns with it
HandlerReturns(i) ==
    /\ lpc[i] = "handling"
    /\ lpc' = [lpc EXCEPT ![i] = "returned"]
    /\ UNCHANGED <<slack_requests, acks, handler, handler_failed, logged, notSlack>>

\* a try block that lets the exception of the handler through
HandlerRaisesUncaught(i) ==
    /\ lpc[i] = "handling"
    /\ handler_failed' = [handler_failed EXCEPT ![i] = TRUE]
    /\ lpc' = [lpc EXCEPT ![i] = "raised"]
    /\ UNCHANGED <<slack_requests, acks, handler, logged, notSlack>>

\* the handler raises an Exception: it is caught, logged and the function
\* returns
HandlerRaises(i) ==
    /\ lpc[i] = "handling"
    /\ handler_failed' = [handler_failed EXCEPT ![i] = TRUE]
    /\ logged' = [logged EXCEPT ![i] = @ + 1]
    /\ lpc' = [lpc EXCEPT ![i] = "returned"]
    /\ UNCHANGED <<slack_requests, acks, handler, notSlack>>

(***************************************************************************)
(* The specifications.                                                     *)
(***************************************************************************)
Init ==
    /\ vespa = <<>>
    /\ IndexInit
    /\ UpdateInit
    /\ FilterInit
    /\ SummaryInit
    /\ CodecInit
    /\ RetriedInit
    /\ IdBasedInit
    /\ PoolInit
    /\ ScanInit
    /\ RetrievalInit
    /\ SlackInit

Next ==
    \/ \E keys \in SUBSET (Docs \X ChunkIds) : IndexStart(keys)
    \/ \E chunk \in pending : DoesDocumentExist(chunk)
    \/ \E chunk \in pending : DoesDocumentExistRaises(chunk)
    \/ ExistsBarrier
    \/ \E doc \in pending : DeleteVespaDocChunks(doc)
    \/ \E doc \in pending : DeleteVespaDocChunksRaises(doc)
    \/ DeleteBarrier
    \/ \E chunk \in pending : IndexVespaChunk(chunk)
    \/ \E chunk \in pending : IndexVespaChunkRaises(chunk)
    \/ InsertBarrier
    \/ IndexReturn

Spec == Init /\ [][Next]_vars

\* the document_ids of a request: one or two documents, none twice
DocumentIdLists ==
    {<<d>> : d \in Docs} \cup {pair \in Docs \X Docs : pair[1] # pair[2]}

\* the UpdateRequests the callers supply
UpdateRequests ==
    {UpdateRequest(ids, b, s, a, h) :
        ids \in DocumentIdLists, b \in BoostValues, s \in DocumentSetsValues,
        a \in AccessValues, h \in HiddenValues}

\* the sequences of at most n elements of a set
SeqUpTo(S, n) == UNION {[1..k -> S] : k \in 0..n}

\* update() starts from an index that holds chunks 0..stored[doc]-1 of each
\* document, as index() left them
InitUpdate ==
    /\ \E stored \in [Docs -> 0..MaxStoredChunks] :
          vespa = [id \in {key \in Docs \X (0..(MaxStoredChunks - 1)) : key[2] < stored[key[1]]} |->
                      VespaDocumentFields(Chunk(id[1], id[2]))]
    /\ IndexInit
    /\ UpdateInit
    /\ FilterInit
    /\ SummaryInit
    /\ CodecInit
    /\ RetriedInit
    /\ IdBasedInit
    /\ PoolInit
    /\ ScanInit
    /\ RetrievalInit
    /\ SlackInit

NextUpdate ==
    \/ \E requests \in SeqUpTo(UpdateRequests, MaxRequests), size \in 1..MaxBatchSize :
          UpdateStart(requests, size)
    \/ SubmitBatch
    \/ \E i \in inflight : UpdateChunk(i)
    \/ \E i \in inflight : UpdateChunkRejected(i)
    \/ UpdateRaises
    \/ UpdateReturns

SpecUpdate == InitUpdate /\ [][NextUpdate]_vars

\* a value that closes its quotation and its group and opens a second group
Injection == <<"a", "\"", ")", " or ", "(", DOCUMENT_SETS, " contains ", "\"", "a">>

\* the entries of the ACL and document-set lists: the empty string, a plain
\* value and a value that holds double quotes and parentheses
Entries == {<<>>, <<"a">>, Injection}

\* the optional lists over a set of entries
OptionalLists(S) == {None} \cup {Some(list) : list \in SeqUpTo(S, MaxLen)}

\* the cutoffs of a call at the instant at: near the edge of the untimed window,
\* near the instant itself and near the epoch
Cutoffs(at) ==
    {at - UNTIMED_DOC_CUTOFF_DAYS * SecondsPerDay * TicksPerSecond + d : d \in -MaxSkew..MaxSkew}
        \cup {at - d : d \in 0..MaxSkew}
        \cup 0..MaxSkew

InitFilter ==
    /\ vespa = <<>>
    /\ IndexInit
    /\ UpdateInit
    /\ fpc = "idle"
    /\ utcnow \in Instants
    /\ include_hidden \in BOOLEAN
    /\ \E acl \in OptionalLists(Entries), source \in OptionalLists(DocumentSource),
          sets \in OptionalLists(Entries),
          cutoff \in {None} \cup {Some(t) : t \in Cutoffs(utcnow)} :
              filters = IndexFilters(acl, source, sets, cutoff)
    /\ clauses = <<>>
    /\ filter_str = <<>>
    /\ SummaryInit
    /\ CodecInit
    /\ RetriedInit
    /\ IdBasedInit
    /\ PoolInit
    /\ ScanInit
    /\ RetrievalInit
    /\ SlackInit

NextFilter == BuildVespaFilters

SpecFilter == InitFilter /\ [][NextFilter]_vars

\* the characters of the summaries: a letter, a space, a punctuation mark
Chars == {"a", " ", "."}

\* the example: "hello world foo<sep />bar baz" with max length 8
ExampleSummary ==
    <<"h", "e", "l", "l", "o", " ", "w", "o", "r", "l", "d", " ", "f", "o", "o", SEP,
      "b", "a", "r", " ", "b", "a", "z">>
ExampleMaxLength == 8

InitSummary ==
    /\ vespa = <<>>
    /\ IndexInit
    /\ UpdateInit
    /\ FilterInit
    /\ spc = "idle"
    /\ \/ /\ dynamic_summary \in SeqUpTo(Chars \cup {SEP}, MaxSummaryLen)
          /\ max_summary_length \in 1..(MaxSummaryLen + 1)
       \/ /\ dynamic_summary = ExampleSummary
          /\ max_summary_length = ExampleMaxLength
    /\ processed_summary = <<>>
    /\ reprocessed_summary = <<>>
    /\ summary_raised = FALSE
    /\ CodecInit
    /\ RetriedInit
    /\ IdBasedInit
    /\ PoolInit
    /\ ScanInit
    /\ RetrievalInit
    /\ SlackInit

NextSummary ==
    \/ ProcessDynamicSummary
    \/ ReprocessDynamicSummary

SpecSummary == InitSummary /\ [][NextSummary]_vars

\* the source links of the chunks: a url at some of the offsets
LinkOffsets == {0, 5}
SourceLinks == UNION {[offsets -> {"url"}] : offsets \in SUBSET LinkOffsets}

\* the chunks that are encoded
CodecChunks ==
    {IndexChunk(doc, ind, content, blurb, links, identifier, continuation, boost) :
        doc \in Docs, ind \in ChunkIds,
        content \in {<<"a", " ", "b">>, <<"a", SEP, "b">>},
        blurb \in {"", "blurb"}, links \in SourceLinks, identifier \in {"", "title"},
        continuation \in BOOLEAN, boost \in {DEFAULT_BOOST, 3}}

\* the fields a hit may come without
LosableFields == {"semantic_identifier", "blurb", "content_summary", "boost"}

InitCodec ==
    /\ vespa = <<>>
    /\ IndexInit
    /\ UpdateInit
    /\ FilterInit
    /\ SummaryInit
    /\ cpc = "idle"
    /\ codec_chunk \in CodecChunks
    /\ lost \in SUBSET LosableFields
    /\ wire = <<>>
    /\ hit = <<>>
    /\ inference_chunk = <<>>
    /\ RetriedInit
    /\ IdBasedInit
    /\ PoolInit
    /\ ScanInit
    /\ RetrievalInit
    /\ SlackInit

NextCodec ==
    \/ EncodeChunk
    \/ ReturnHit
    \/ DecodeHit

SpecCodec == InitCodec /\ [][NextCodec]_vars

\* the hits of the search responses: a chunk of the index, whole, without its
\* content, or without its semantic identifier
ResponseHits ==
    {[ind |-> ind, missing |-> missing] :
        ind \in ChunkIds, missing \in {{}, {"content"}, {"semantic_identifier"}}}

\* the chunks of the index that the searches hit
StoredChunk(ind) ==
    IndexChunk("doc_a", ind, <<"a", " ", "b">>, "blurb", <<>>, "title", FALSE, DEFAULT_BOOST)

\* the hit of a chunk of the index, without the fields that are missing
ResponseHit(h) ==
    [id |-> GetUuidFromChunk(StoredChunk(h.ind)),
     fields |-> Without(VespaDocumentFields(StoredChunk(h.ind)), h.missing)]

\* the response that holds the given hits
Response(hits) == [i \in DOMAIN hits |-> ResponseHit(hits[i])]

\* the hit the document API gives for chunk ind of the document, whole or
\* without its semantic identifier
DocumentHits(ind) ==
    {[ind |-> ind, missing |-> missing] : missing \in {{}, {"semantic_identifier"}}}

\* what the index answers to a GET: an error status, or a response
GetOutcomes == {None} \cup {Some(hits) : hits \in SeqUpTo(ResponseHits, MaxHits)}

\* the statuses the index answers with to the POST of the fields and to the
\* POST of the cleaned fields
PostOutcomes == {200, 400, 413, 422, 500} \X {200, 400, 500}

\* the statuses the index answers with to the GET of a chunk
GetStatuses == {200, 201, 204, 404, 500}

\* what the deletion of a document meets: a scan that raises, or the statuses
\* of the DELETEs of its chunks
DeleteOutcomes == {None} \cup {Some(statuses) : statuses \in SeqUpTo({200, 500}, MaxHits)}

\* the calls: a query that is absent, empty, blank or a word, and a chunk whose
\* document has no update time, one in UTC or one in another zone
RetriedCalls ==
    {[fn |-> "_query_vespa", query |-> q] :
        q \in {None, Some(<<>>), Some(<<" ">>), Some(<<"a">>)}}
    \cup {[fn |-> "_index_vespa_chunk", tzinfo |-> tz] :
            tz \in {None, Some("utc"), Some("est")}}
    \cup {[fn |-> "_does_document_exist", doc_chunk_id |-> <<"doc_a", 0>>],
          [fn |-> "_delete_vespa_doc_chunks", document_id |-> "doc_a"],
          [fn |-> "_inference_chunk_by_vespa_id", vespa_id |-> <<"doc_a", 0>>]}

InitRetried ==
    /\ vespa = <<>>
    /\ IndexInit
    /\ UpdateInit
    /\ FilterInit
    /\ SummaryInit
    /\ CodecInit
    /\ rpc = "call"
    /\ rcall \in RetriedCalls
    /\ tries = RETRY_TRIES
    /\ delay = RETRY_DELAY
    /\ sleeps = <<>>
    /\ attempts = 0
    /\ gets = 0
    /\ posts = 0
    /\ last_error = ""
    /\ response = <<>>
    /\ query_result = <<>>
    /\ exchanges = <<>>
    /\ returned_value = None
    /\ IdBasedInit
    /\ PoolInit
    /\ ScanInit
    /\ RetrievalInit
    /\ SlackInit

NextRetried ==
    \/ \E outcome \in GetOutcomes :
          QueryVespaAttempt(IF outcome = None THEN None ELSE Some(Response(ValueOf(outcome))))
    \/ \E outcome \in PostOutcomes : IndexVespaChunkAttempt(outcome)
    \/ \E status \in GetStatuses : DoesDocumentExistAttempt(status)
    \/ \E outcome \in DeleteOutcomes : DeleteVespaDocChunksAttempt(outcome)
    \/ InferenceChunkByVespaIdAttempt(None)
    \/ \E h \in DocumentHits(0) : InferenceChunkByVespaIdAttempt(Some(ResponseHit(h)))
    \/ RetrySleeps
    \/ RetryRaises

SpecRetried == InitRetried /\ [][NextRetried]_vars

InitIdBased ==
    /\ vespa = <<>>
    /\ IndexInit
    /\ UpdateInit
    /\ FilterInit
    /\ SummaryInit
    /\ CodecInit
    /\ RetriedInit
    /\ ipc = "call"
    /\ vespa_chunk_ids = {}
    /\ fetches = <<>>
    /\ inference_chunks = <<>>
    /\ id_result = <<>>
    /\ PoolInit
    /\ ScanInit
    /\ RetrievalInit
    /\ SlackInit

NextIdBased ==
    \/ \E ids \in SUBSET (0..MaxDocChunkId) : IdBasedScan(ids)
    \/ IdBasedScanRaises
    \/ \E id \in 0..MaxDocChunkId :
          \/ InferenceChunkByVespaId(id, None)
          \/ \E h \in DocumentHits(id) : InferenceChunkByVespaId(id, Some(ResponseHit(h)))
    \/ IdBasedReturn

SpecIdBased == InitIdBased /\ [][NextIdBased]_vars

\* the top-level calls: index() of so many chunks, so many of them first
\* chunks; update() of so many updates; delete() of so many documents; and the
\* helpers called on their own, without a pool
PoolCalls ==
    UNION {{[fn |-> "index", chunks |-> n, first_chunks |-> f] : f \in 0..n} :
              n \in 0..MaxTasks}
    \cup {[fn |-> fn, chunks |-> n, first_chunks |-> IF fn = "update" THEN 0 ELSE n] :
            fn \in {"update", "delete", "_get_existing_documents_from_chunks",
                    "_batch_index_vespa_chunks"},
            n \in 0..MaxTasks}

InitPool ==
    /\ vespa = <<>>
    /\ IndexInit
    /\ UpdateInit
    /\ FilterInit
    /\ SummaryInit
    /\ CodecInit
    /\ RetriedInit
    /\ IdBasedInit
    /\ tpc = "enter"
    /\ tcall \in PoolCalls
    /\ phase = 1
    /\ todo = 0
    /\ executor = [made |-> 0, owner |-> "", alive |-> FALSE, shutdowns |-> 0]
    /\ external_executor = FALSE
    /\ queued = 0
    /\ running = 0
    /\ failed = FALSE
    /\ num_existing = 0
    /\ submitted_total = 0
    /\ finished_total = 0
    /\ unfinished_at_failure = 0
    /\ ScanInit
    /\ RetrievalInit
    /\ SlackInit

NextPool ==
    \/ PoolEnter
    \/ PoolSubmit
    \/ TaskStarts
    \/ \E found \in BOOLEAN : TaskReturns(found)
    \/ TaskRaises
    \/ AwaitRaises
    \/ AwaitReturns
    \/ PoolNextPhase
    \/ PoolReturns
    \/ PoolRaises

SpecPool == InitPool /\ [][NextPool]_vars

\* the index that holds of each document id so many chunks
ScanIndex(counts) ==
    [id \in UNION {{<<ScanDocumentIds[d], k>> : k \in 0..(counts[d] - 1)} :
                      d \in DOMAIN ScanDocumentIds}
        |-> [document_id |-> id[1], chunk_id |-> id[2]]]

InitScan ==
    /\ vespa \in {ScanIndex(counts) : counts \in [DOMAIN ScanDocumentIds -> 0..MaxScanChunks]}
    /\ IndexInit
    /\ UpdateInit
    /\ FilterInit
    /\ SummaryInit
    /\ CodecInit
    /\ RetriedInit
    /\ IdBasedInit
    /\ PoolInit
    /\ gpc = "scan"
    /\ document_id \in {ScanDocumentIds[d] : d \in DOMAIN ScanDocumentIds}
    /\ hits_per_page \in 1..MaxPageSize
    /\ offset = 0
    /\ doc_chunk_ids = <<>>
    /\ deletes = <<>>
    /\ scan_attempts = 1
    /\ pages = 0
    /\ scanned = vespa
    /\ RetrievalInit
    /\ SlackInit

NextScan ==
    \/ ScanPage
    \/ \E status \in {200, 500} : DeleteChunk(status)
    \/ DeleteChunksReturns
    \/ DeleteChunksRetries
    \/ DeleteChunksRaises
    \/ \E chunk_id \in DOMAIN vespa : OtherTaskDeletes(chunk_id)

SpecScan == InitScan /\ [][NextScan]_vars

\* the calls of the retrieval methods: the multiplier of the three that take
\* one, and the blend weight of hybrid_retrieval, given or None
RetrievalCalls ==
    {[fn |-> fn, time_decay_multiplier |-> Some(m), hybrid_alpha |-> None] :
        fn \in {"keyword_retrieval", "semantic_retrieval"}, m \in 0..MaxMultiplier}
    \cup {[fn |-> "hybrid_retrieval", time_decay_multiplier |-> Some(m), hybrid_alpha |-> a] :
            m \in 0..MaxMultiplier, a \in {None, Some(0), Some(3)}}
    \cup {[fn |-> "admin_retrieval", time_decay_multiplier |-> None, hybrid_alpha |-> None]}

InitRetrieval ==
    /\ vespa = <<>>
    /\ IndexInit
    /\ UpdateInit
    /\ FilterInit
    /\ SummaryInit
    /\ CodecInit
    /\ RetriedInit
    /\ IdBasedInit
    /\ PoolInit
    /\ ScanInit
    /\ qpc = "call"
    /\ retrieval_call \in RetrievalCalls
    /\ configured \in [DOC_TIME_DECAY : {0, 1, 5}, HYBRID_ALPHA : {0, 6}]
    /\ query_params = RankingParams("", None, None)
    /\ SlackInit

NextRetrieval ==
    \/ KeywordRetrieval
    \/ SemanticRetrieval
    \/ HybridRetrieval
    \/ AdminRetrieval

SpecRetrieval == InitRetrieval /\ [][NextRetrieval]_vars

\* the requests of a socket-mode connection: block actions and other
\* interactive payloads, events, slash commands, and a type of no handler
SlackRequests ==
    {[type |-> "interactive", payload_type |-> t] : t \in {"block_actions", "view_submission"}}
    \cup {[type |-> t, payload_type |-> ""] : t \in {"events_api", "slash_commands", "hello"}}

InitSlack ==
    /\ vespa = <<>>
    /\ IndexInit
    /\ UpdateInit
    /\ FilterInit
    /\ SummaryInit
    /\ CodecInit
    /\ RetriedInit
    /\ IdBasedInit
    /\ PoolInit
    /\ ScanInit
    /\ RetrievalInit
    /\ slack_requests \in [1..MaxSlackRequests -> SlackRequests]
    /\ lpc = [i \in 1..MaxSlackRequests |-> "received"]
    /\ acks = [i \in 1..MaxSlackRequests |-> 0]
    /\ handler = [i \in 1..MaxSlackRequests |-> ""]
    /\ handler_failed = [i \in 1..MaxSlackRequests |-> FALSE]
    /\ logged = [i \in 1..MaxSlackRequests |-> 0]

NextSlack ==
    \E i \in 1..MaxSlackRequests :
        \/ \E delivered \in BOOLEAN : AcknowledgeMessage(i, delivered)
        \/ ProcessSlackEventDispatches(i)
        \/ HandlerReturns(i)
        \/ HandlerRaises(i)

SpecSlack == InitSlack /\ [][NextSlack]_vars

(***************************************************************************)
(* Properties of index().                                                  *)
(***************************************************************************)
\* the chunks of a document an index holds: identifier -> field map
StoredOf(index, doc) ==
    [id \in GetVespaChunkIdsByDocumentId(index, doc) |-> index[id]]

\* the chunk indices of a document an index holds
StoredIdsOf(index, doc) ==
    {index[id].chunk_id : id \in GetVespaChunkIdsByDocumentId(index, doc)}

\* what an index holds of a document when it holds exactly the chunks cs of it
ExactlyChunks(cs, doc) ==
    LET mine == {c \in cs : c.document_id = doc}
    IN  [id \in {GetUuidFromChunk(c) : c \in mine} |->
            VespaDocumentFields(CHOOSE c \in mine : GetUuidFromChunk(c) = id)]

\* the running call re-indexes the document with fewer chunks than the index held
Shrinks(doc) ==
    /\ IsComplete(StoredIdsOf(pre, doc))
    /\ Cardinality(GetVespaChunkIdsByDocumentId(pre, doc)) = Cardinality(StoredIdsOf(pre, doc))
    /\ IsComplete(ChunkIdsOf(chunks, doc))
    /\ ChunkIdsOf(chunks, doc) # {}
    /\ Cardinality(ChunkIdsOf(chunks, doc)) < Cardinality(StoredIdsOf(pre, doc))

\* C1: when a call that re-indexes a document holding chunks 0..N-1 with its
\* complete new chunk set 0..M-1, M < N, has returned, the index holds of the
\* document exactly the M chunks the call posted, and none of index >= M
C1_ShrunkDocumentKeepsNoStaleChunk ==
    pc = "done" =>
        \A doc \in Docs :
            Shrinks(doc) =>
                /\ StoredOf(vespa, doc) = ExactlyChunks(chunks, doc)
                /\ \A id \in GetVespaChunkIdsByDocumentId(vespa, doc) : <<"POST", id>> \in sent
                /\ \A i \in StoredIdsOf(vespa, doc) : i < Cardinality(ChunkIdsOf(chunks, doc))

C1_Witness ==
    /\ pc = "done"
    /\ \E doc \in Docs :
          /\ Shrinks(doc)
          /\ \E id \in DOMAIN pre : pre[id].document_id = doc /\ id \notin DOMAIN vespa

\* the identifier of the chunk with index 0 of a document
FirstChunkId(doc) == GetUuidFromChunk(Chunk(doc, 0))

C3_IndexingTwiceIsIndexingOnce ==
    (pc = "done" /\ complete) =>
        \A doc \in Docs :
            prev[doc] = "same" =>
                /\ StoredOf(vespa, doc) = StoredOf(pre, doc)
                /\ \A c1, c2 \in chunks :
                      GetUuidFromChunk(c1) = GetUuidFromChunk(c2) => c1 = c2

\* C4, as claimed: when the chunks of a document are split over two calls in
\* succession, the index holds of the document, after the second call, only the
\* chunks the second call supplied
C4_OnlyLastSetOfChunksIsKept ==
    pc = "done" =>
        \A doc \in Docs :
            prev[doc] = "split" => StoredOf(vespa, doc) = ExactlyChunks(chunks, doc)

\* the field map the call posts under an identifier
PostedFields(cs, id) == VespaDocumentFields(CHOOSE c \in cs : GetUuidFromChunk(c) = id)

\* the index a call of index(cs) that meets no failure leaves, from an index
NeverFailing(index, cs) ==
    LET existing == {c.document_id : c \in {f \in FirstChunks(cs) :
                                               GetUuidFromChunk(f) \in DOMAIN index}}
        purged == Delete(index,
                         UNION {GetVespaChunkIdsByDocumentId(index, doc) : doc \in existing})
        posted == {GetUuidFromChunk(c) : c \in cs}
    IN  [id \in DOMAIN purged \cup posted |->
            IF id \in posted THEN PostedFields(cs, id) ELSE purged[id]]

\* the call has failed, and did so while it inserted
FailedWhileInserting == pc = "failed" /\ \E request \in sent : request[1] = "POST"

\* C21: no mutation is rolled back.  When a call fails while it inserts, the
\* index is the index before the call without the chunks the call deleted and
\* with the chunks whose POST was accepted; and when the same call, called
\* again, returns, the index is the one a call that met no failure would have
\* left from the index before the first attempt.
C21_NoRollbackAndRerunConverges ==
    /\ FailedWhileInserting =>
          LET deleted == {id \in DOMAIN pre : <<"DELETE", id>> \in sent}
          IN  vespa = [id \in (DOMAIN pre \ deleted) \cup inserted |->
                          IF id \in inserted THEN PostedFields(chunks, id) ELSE pre[id]]
    /\ (pc = "done" /\ failed_call # None) =>
          vespa = NeverFailing(ValueOf(failed_call).pre, chunks)

\* the requests of a kind the call has sent
Sent(method) == {request \in sent : request[1] = method}

\* C22: the phases of a call are separated by barriers.  A DELETE is sent only
\* when every existence check of the call has been answered; a POST is sent
\* only when every chunk that the index held of an existing document has been
\* deleted, so that the index then holds, of an existing document, only chunks
\* that the call has posted.
C22_PhasesAreSeparatedByBarriers ==
    pc # "idle" =>
        /\ Sent("DELETE") # {} =>
              \A chunk \in FirstChunks(chunks) : <<"GET", GetUuidFromChunk(chunk)>> \in sent
        /\ Sent("POST") # {} =>
              \A doc \in existing_docs :
                  /\ \A id \in GetVespaChunkIdsByDocumentId(pre, doc) : <<"DELETE", id>> \in sent
                  /\ GetVespaChunkIdsByDocumentId(vespa, doc) \subseteq inserted

\* the call inserts after it has purged two existing documents, one of them of
\* two chunks
C22_Witness ==
    /\ pc = "insert"
    /\ Sent("POST") # {}
    /\ Cardinality(existing_docs) = 2
    /\ Cardinality(Sent("DELETE")) >= 3
    /\ pending # {}

(***************************************************************************)
(* Properties of update().                                                 *)
(***************************************************************************)
\* the index fields a request sets, read off the request's attributes
SetFields(request) ==
    {name \in {"boost", "document_sets", "access_control_list", "hidden"} :
        \/ name = "boost" /\ request.boost # None
        \/ name = "document_sets" /\ request.document_sets # None
        \/ name = "access_control_list" /\ request.access # None
        \/ name = "hidden" /\ request.hidden # None}

\* the value a request assigns to a field it sets
AssignedValue(request, name) ==
    CASE name = "boost" -> ValueOf(request.boost)
      [] name = "document_sets" -> ValueOf(request.document_sets)
      [] name = "access_control_list" -> ValueOf(request.access)
      [] name = "hidden" -> ValueOf(request.hidden)

\* the elements of a sequence
Range(seq) == {seq[i] : i \in DOMAIN seq}

\* the updates whose PUT has been sent
SentUpdates == (1..submitted) \ inflight

\* C5: a call of update() whose requests all leave boost, document_sets,
\* access and hidden unset makes no network call: it scans the chunk ids of no
\* document and sends no PUT, whatever the number of requests and the
\* documents they name.
C5_UnsetRequestsIssueNoNetworkCall ==
    (upc # "idle" /\ \A r \in DOMAIN update_requests : SetFields(update_requests[r]) = {})
        => /\ scans = <<>>
           /\ updates = <<>>
           /\ submitted = 0
           /\ inflight = {}

C5_Witness ==
    /\ upc = "done"
    /\ Len(update_requests) >= 1
    /\ \A r \in DOMAIN update_requests : SetFields(update_requests[r]) = {}
    /\ \E r \in DOMAIN update_requests :
          \E doc \in Range(update_requests[r].document_ids) : StoredIdsOf(vespa, doc) # {}

\* the number of sub-batches of a call, and the updates of the k-th of them
NumBatches == (Len(updates) + batch_size - 1) \div batch_size
Batch(k) == {i \in DOMAIN updates : (i - 1) \div batch_size = k - 1}

\* C6 as stated: when update() dispatches 5 sub-batches and an update of
\* sub-batch 3 fails, the updates of sub-batches 1, 2, 4 and 5 are all still sent
\* and complete, and the call raises.
C6_OtherBatchesStillComplete ==
    (upc = "raised" /\ NumBatches = 5 /\ rejected # {} /\ rejected \subseteq Batch(3))
        => (Batch(1) \cup Batch(2) \cup Batch(4) \cup Batch(5)) \subseteq SentUpdates

\* C6: when an update of sub-batch k fails, the sub-batches before k have
\* completed, every update of sub-batch k is still sent, no update of a later
\* sub-batch is ever sent, and the call raises and never returns; so of 5
\* sub-batches with a failure in sub-batch 3, 1 and 2 complete and 4 and 5 are
\* never sent.
C6_FailedBatchStopsLaterBatches ==
    rejected # {} =>
        \E k \in 1..NumBatches :
            /\ rejected \subseteq Batch(k)
            /\ upc # "done"
            /\ \A j \in 1..NumBatches :
                  /\ j < k => Batch(j) \subseteq SentUpdates
                  /\ j > k => Batch(j) \cap SentUpdates = {}
            /\ upc = "raised" => Batch(k) \subseteq SentUpdates

C6_Witness ==
    /\ upc = "raised"
    /\ NumBatches = 5
    /\ rejected # {}
    /\ rejected \subseteq Batch(3)
    /\ SentUpdates = Batch(1) \cup Batch(2) \cup Batch(3)

\* the (request, document, chunk id) triples update() owes a PUT to
OwedUpdates ==
    {triple \in (DOMAIN update_requests) \X Docs \X DOMAIN vespa :
        /\ SetFields(update_requests[triple[1]]) # {}
        /\ triple[2] \in Range(update_requests[triple[1]].document_ids)
        /\ vespa[triple[3]].document_id = triple[2]}

\* the requests that name a document and set a field
Setting(doc, name) ==
    {r \in DOMAIN update_requests :
        /\ doc \in Range(update_requests[r].document_ids)
        /\ name \in SetFields(update_requests[r])}

C25_RejectedPutIsRetriedBeforeUpdateRaises ==
    upc = "raised" => \A i \in rejected : puts[i] = RETRY_TRIES

(***************************************************************************)
(* Properties of _build_vespa_filters.                                     *)
(***************************************************************************)
\* an IndexFilters whose lists and cutoff are all absent
NoFilters ==
    /\ filters.access_control_list = None
    /\ filters.source_type = None
    /\ filters.document_set = None
    /\ filters.time_cutoff = None

\* C8 as stated: called with its default arguments (include_hidden false) on an
\* IndexFilters whose ACL list, source-type list, document-set list and cutoff
\* are all absent, the builder returns the empty string.
C8_EmptyFiltersGiveEmptyString ==
    (fpc = "built" /\ NoFilters /\ ~include_hidden) => filter_str = <<>>

\* C8: on an IndexFilters whose lists and cutoff are all absent the builder
\* returns the empty string when it is called with include_hidden true, and
\* exactly the clause that excludes hidden documents, "!(hidden=true) and ",
\* when it is called with its default arguments.
C8_EmptyFiltersGiveOnlyHiddenClause ==
    (fpc = "built" /\ NoFilters) =>
        /\ include_hidden => filter_str = <<>>
        /\ ~include_hidden => filter_str = <<"!", "(", "hidden", "=true", ")", " and ">>

C8_Witness ==
    /\ fpc = "built"
    /\ NoFilters
    /\ ~include_hidden
    /\ filter_str # <<>>

\* the entries of an optional list that are not empty, in list order
NonEmptyEntries(list) ==
    IF list = None THEN <<>> ELSE SelectSeq(ValueOf(list), LAMBDA entry : entry # <<>>)

\* a string has an empty group where an opening parenthesis is followed at once
\* by a closing one
HasEmptyGroup(str) ==
    \E i \in 1..(Len(str) - 1) : str[i] = "(" /\ str[i + 1] = ")"

\* the length of the term of an entry: the key, the operator, two quotes and
\* the entry
TermLen(entry) == Len(entry) + 4

\* where the term of the k-th entry starts in the OR-group of the entries
RECURSIVE TermStart(_, _)
TermStart(entries, k) ==
    IF k = 1 THEN 2 ELSE TermStart(entries, k - 1) + TermLen(entries[k - 1]) + 1

\* clause is the OR-group of the entries under key: one term per entry, in
\* order, " or " between the terms, in parentheses and followed by " and "
IsOrGroup(clause, key, entries) ==
    LET n == Len(entries)
        end == TermStart(entries, n) + TermLen(entries[n])
    IN  /\ Len(clause) = end + 1
        /\ clause[1] = "("
        /\ clause[end] = ")"
        /\ clause[end + 1] = " and "
        /\ \A k \in 1..n :
              LET start == TermStart(entries, k)
                  stop == start + TermLen(entries[k])
              IN  /\ clause[start] = key
                  /\ clause[start + 1] = " contains "
                  /\ clause[start + 2] = "\""
                  /\ SubSeq(clause, start + 3, stop - 2) = entries[k]
                  /\ clause[stop - 1] = "\""
                  /\ k < n => clause[stop] = " or "

\* the clause of a list: none when no entry is non-empty, else its OR-group
IsClauseOf(clause, key, entries) ==
    IF entries = <<>> THEN clause = <<>> ELSE IsOrGroup(clause, key, entries)

\* C9: for each of the ACL, source-type and document-set lists, a list that is
\* absent, empty or holds only empty entries gets no clause, and never an empty
\* group "()"; any other list gets one OR-group with one term per non-empty
\* entry, in list order, followed by a logical AND.
C9_OneOrGroupPerListWithNonEmptyEntries ==
    fpc = "built" =>
        /\ IsClauseOf(clauses.access_control_list, "access_control_list",
                      NonEmptyEntries(filters.access_control_list))
        /\ IsClauseOf(clauses.source_type, "source_type",
                      SourceValues(IF filters.source_type = None THEN <<>>
                                   ELSE ValueOf(filters.source_type)))
        /\ IsClauseOf(clauses.document_set, "document_sets",
                      NonEmptyEntries(filters.document_set))
        /\ ~HasEmptyGroup(filter_str)
        /\ filter_str = clauses.hidden \o clauses.access_control_list \o clauses.source_type
                        \o clauses.document_set \o clauses.time_cutoff

C9_Witness ==
    /\ fpc = "built"
    /\ filters.access_control_list = Some(<<<<>>, <<>>>>)
    /\ filters.source_type = Some(<<>>)
    /\ filters.document_set = Some(<<<<"a">>, <<>>>>)
    /\ clauses.access_control_list = <<>>
    /\ clauses.document_set # <<>>

\* the number a piece of a string spells
NumberOf(piece) ==
    CHOOSE n \in {Timestamp(t) : t \in Cutoffs(utcnow)} : ToString(n) = piece

\* the query language on a time clause: whether a document whose
\* doc_updated_at is the integer updated_at satisfies it
SatisfiesTimeClause(clause, updated_at) ==
    IF clause[1] = "!"
    THEN ~(updated_at < NumberOf(clause[5]))
    ELSE updated_at >= NumberOf(clause[4])

\* the doc_updated_at values of the documents a cutoff is tried on: the
\* sentinel -1, the epoch, and the seconds around the cutoff
UpdatedAts(cutoff_secs) ==
    {-1, 0} \cup {t \in {cutoff_secs + d : d \in -MaxSkew..MaxSkew} : t >= 0}

\* C10 as stated: for a cutoff more than 92 days before the current instant the
\* time predicate is satisfied by a document whose updated-at is the sentinel
\* -1 and by every document with updated-at >= cutoff, and by no document with
\* 0 <= updated-at < cutoff; for a cutoff less than 92 days before the current
\* instant it is satisfied exactly by the documents with updated-at >= cutoff,
\* and so rejects the sentinel -1.  The cutoff is compared in epoch seconds.
C10_OldCutoffAdmitsUntimedDocuments ==
    (fpc = "built" /\ filters.time_cutoff # None) =>
        LET cutoff == ValueOf(filters.time_cutoff)
            cutoff_secs == Timestamp(cutoff)
            window == UNTIMED_DOC_CUTOFF_DAYS * SecondsPerDay * TicksPerSecond
        IN  /\ cutoff < utcnow - window =>
                /\ SatisfiesTimeClause(clauses.time_cutoff, -1)
                /\ \A t \in UpdatedAts(cutoff_secs) :
                      /\ t >= cutoff_secs => SatisfiesTimeClause(clauses.time_cutoff, t)
                      /\ (0 <= t /\ t < cutoff_secs) =>
                            ~SatisfiesTimeClause(clauses.time_cutoff, t)
            /\ cutoff > utcnow - window =>
                \A t \in UpdatedAts(cutoff_secs) :
                    SatisfiesTimeClause(clauses.time_cutoff, t) <=> t >= cutoff_secs

(***************************************************************************)
(* The query language on a predicate: "and" binds tighter than "or", "!"   *)
(* negates the factor after it, a double quote ends the quotation the      *)
(* double quote before it began.                                           *)
(***************************************************************************)
\* the fields "contains" is asked of, each a set of strings
SetValuedFields == {ACCESS_CONTROL_LIST, SOURCE_TYPE, DOCUMENT_SETS}

\* the lexemes of a quotation: those before the first double quote
RECURSIVE Quoted(_)
Quoted(str) ==
    IF str = <<>> \/ Head(str) = "\"" THEN <<>> ELSE <<Head(str)>> \o Quoted(Tail(str))

\* a parse: whether the lexemes read so far are well formed, their truth on
\* the document, and the lexemes left
Parsed(ok, val, rest) == [ok |-> ok, val |-> val, rest |-> rest]
Malformed == Parsed(FALSE, FALSE, <<>>)

RECURSIVE ParseExpr(_, _), ParseOrs(_, _), ParseTerm(_, _), ParseAnds(_, _), ParseFactor(_, _)

\* factor: "!" factor, "(" expr ")", true, or a comparison of a field
ParseFactor(str, doc) ==
    IF str = <<>> THEN Malformed
    ELSE IF Head(str) = "!" THEN
        LET f == ParseFactor(Tail(str), doc) IN Parsed(f.ok, ~f.val, f.rest)
    ELSE IF Head(str) = "(" THEN
        LET e == ParseExpr(Tail(str), doc)
        IN  IF e.ok /\ e.rest # <<>> /\ Head(e.rest) = ")"
            THEN Parsed(TRUE, e.val, Tail(e.rest))
            ELSE Malformed
    ELSE IF Head(str) = "true" THEN Parsed(TRUE, TRUE, Tail(str))
    ELSE IF Len(str) < 2 THEN Malformed
    ELSE IF str[2] = "=true" /\ str[1] = HIDDEN THEN
        Parsed(TRUE, doc[HIDDEN], SubSeq(str, 3, Len(str)))
    ELSE IF str[2] \in {" < ", " >= "} /\ str[1] = DOC_UPDATED_AT /\ Len(str) >= 3 THEN
        IF str[3] \notin {ToString(Timestamp(t)) : t \in Cutoffs(utcnow)} THEN Malformed
        ELSE Parsed(TRUE,
                    IF str[2] = " < " THEN doc[DOC_UPDATED_AT] < NumberOf(str[3])
                    ELSE doc[DOC_UPDATED_AT] >= NumberOf(str[3]),
                    SubSeq(str, 4, Len(str)))
    ELSE IF str[2] = " contains " /\ str[1] \in SetValuedFields
            /\ Len(str) >= 3 /\ str[3] = "\"" THEN
        LET value == Quoted(SubSeq(str, 4, Len(str)))
            after == SubSeq(str, 4 + Len(value), Len(str))
        IN  IF after = <<>> THEN Malformed
            ELSE Parsed(TRUE, value \in doc[str[1]], Tail(after))
    ELSE Malformed

\* term: factor (" and " factor)*
ParseAnds(left, doc) ==
    IF left.ok /\ left.rest # <<>> /\ Head(left.rest) = " and "
    THEN LET f == ParseFactor(Tail(left.rest), doc)
         IN  ParseAnds(Parsed(f.ok, left.val /\ f.val, f.rest), doc)
    ELSE left

ParseTerm(str, doc) == ParseAnds(ParseFactor(str, doc), doc)

\* expr: term (" or " term)*
ParseOrs(left, doc) ==
    IF left.ok /\ left.rest # <<>> /\ Head(left.rest) = " or "
    THEN LET t == ParseTerm(Tail(left.rest), doc)
         IN  ParseOrs(Parsed(t.ok, left.val \/ t.val, t.rest), doc)
    ELSE left

ParseExpr(str, doc) == ParseOrs(ParseTerm(str, doc), doc)

\* whether a document satisfies a predicate
Satisfies(str, doc) ==
    LET e == ParseExpr(str, doc) IN e.ok /\ e.rest = <<>> /\ e.val

\* the documents the predicates are tried on
Documents ==
    {[hidden |-> h, access_control_list |-> acl, source_type |-> {source},
      document_sets |-> sets, doc_updated_at |-> t] :
        h \in BOOLEAN, acl \in SUBSET {<<"a">>, Injection},
        source \in {SourceValue(member) : member \in DocumentSource},
        sets \in SUBSET {<<"a">>, Injection}, t \in {-1, 0}}

\* clause, followed by a match clause that holds, selects exactly the documents
\* whose field key holds one of the entries
SelectsHolders(clause, key, entries) ==
    \A doc \in Documents :
        Satisfies(clause \o <<"true">>, doc) <=> \E k \in DOMAIN entries : entries[k] \in doc[key]

\* C11: every OR-group the builder emits quotes its values so that a value
\* cannot change the structure of the predicate: whatever the values of the ACL,
\* source-type and document-set lists (a value with a double quote, a
\* parenthesis or the word "or" among them), the group matches exactly the
\* documents whose set holds one of the values as a literal.
C11_GroupMatchesItsLiteralValues ==
    fpc = "built" =>
        /\ clauses.access_control_list # <<>> =>
              SelectsHolders(clauses.access_control_list, "access_control_list",
                             NonEmptyEntries(filters.access_control_list))
        /\ clauses.source_type # <<>> =>
              SelectsHolders(clauses.source_type, "source_type",
                             SourceValues(ValueOf(filters.source_type)))
        /\ clauses.document_set # <<>> =>
              SelectsHolders(clauses.document_set, "document_sets",
                             NonEmptyEntries(filters.document_set))

(***************************************************************************)
(* Properties of _process_dynamic_summary.                                 *)
(***************************************************************************)
\* a fragment ends with an ellipsis
EndsWithEllipsis(fragment) ==
    Len(fragment) >= 3 /\ SubSeq(fragment, Len(fragment) - 2, Len(fragment)) = Ellipsis

\* C12: the truncator is idempotent on its own output: truncating, joining the
\* fragments with the separator and truncating again with the same max length
\* returns the same fragments; and "hello world foo<sep />bar baz" with max
\* length 8 gives a result cut at a word boundary that ends with "...".
C12_TruncatingTwiceIsTruncatingOnce ==
    /\ spc = "reprocessed" => reprocessed_summary = processed_summary
    /\ (spc # "idle" /\ dynamic_summary = ExampleSummary
            /\ max_summary_length = ExampleMaxLength) =>
          /\ processed_summary = <<<<"h", "e", "l", "l", "o", ".", ".", ".">>>>
          /\ EndsWithEllipsis(processed_summary[Len(processed_summary)])

\* the total length of the segments of a summary
TotalLength(str) == Cardinality({i \in DOMAIN str : str[i] # SEP})

\* C13: a summary whose segments have a total length that does not exceed the
\* max length, a total equal to the max length included, comes back as all its
\* segments, in order, unmodified and without an ellipsis.
C13_SummaryWithinBudgetIsReturnedWhole ==
    (spc # "idle" /\ dynamic_summary # <<>>
         /\ TotalLength(dynamic_summary) <= max_summary_length)
        => processed_summary = SplitSections(dynamic_summary)

(***************************************************************************)
(* Properties of the chunk codec.                                          *)
(***************************************************************************)
\* C14: encoding a chunk to the wire field map and decoding that field map as
\* a hit preserves the chunk's document id, chunk index, content, source links
\* (as a mapping with integer keys equal to the original) and boost, a boost
\* different from the default included.
C14_EncodeThenDecodePreservesChunk ==
    (cpc = "decoded" /\ lost = {}) =>
        /\ inference_chunk.raised = ""
        /\ inference_chunk.chunk # None
        /\ LET decoded == ValueOf(inference_chunk.chunk)
           IN  /\ decoded.document_id = codec_chunk.document_id
               /\ decoded.chunk_id = codec_chunk.chunk_id
               /\ decoded.content = codec_chunk.content
               /\ decoded.source_links = codec_chunk.source_links
               /\ decoded.boost = codec_chunk.boost

\* C15: decoding a hit that has no semantic-identifier field does not fail: it
\* gives an InferenceChunk whose semantic identifier is the empty string.
C15_HitWithoutSemanticIdentifierIsDecoded ==
    (cpc = "decoded" /\ "semantic_identifier" \in lost) =>
        /\ inference_chunk.raised = ""
        /\ inference_chunk.chunk # None
        /\ ValueOf(inference_chunk.chunk).semantic_identifier = ""

\* C16: decoding a hit that has no blurb field, or an empty blurb, with or
\* without a semantic identifier, does not fail: it gives an InferenceChunk
\* whose blurb is the empty string.
C16_HitWithoutBlurbIsDecoded ==
    (cpc = "decoded" /\ ("blurb" \in lost \/ codec_chunk.blurb = "")) =>
        /\ inference_chunk.raised = ""
        /\ inference_chunk.chunk # None
        /\ ValueOf(inference_chunk.chunk).blurb = ""

(***************************************************************************)
(* Properties of the retried calls.                                        *)
(***************************************************************************)
\* the hits of a response that have content, in the order of the response
RECURSIVE HitsWithContent(_)
HitsWithContent(hits) ==
    IF hits = <<>> THEN <<>>
    ELSE (IF "content" \in DOMAIN Head(hits).fields THEN <<Head(hits)>> ELSE <<>>)
         \o HitsWithContent(Tail(hits))

\* C17: the list a retrieval call returns is the decoding of exactly the hits
\* of the response that have content, in the order of the response; and an
\* attempt that fails while it decodes a response fails over a hit that has
\* content, never over one without
C17_ReturnedListDecodesHitsWithContent ==
    rcall.fn = "_query_vespa" =>
        /\ rpc = "returned" =>
              /\ Len(query_result) = Len(HitsWithContent(response))
              /\ \A i \in DOMAIN query_result :
                    query_result[i] =
                        ValueOf(VespaHitToInferenceChunk(HitsWithContent(response)[i]).chunk)
        /\ last_error = "KeyError" =>
              \E i \in DOMAIN response :
                  /\ "content" \in DOMAIN response[i].fields
                  /\ VespaHitToInferenceChunk(response[i]).raised = "KeyError"

\* a call has returned the one chunk of a response of two hits, the first of
\* them without content
C17_Witness ==
    /\ rcall.fn = "_query_vespa"
    /\ rpc = "returned"
    /\ Len(response) = 2
    /\ "content" \notin DOMAIN response[1].fields
    /\ "content" \in DOMAIN response[2].fields
    /\ Len(query_result) = 1
    /\ query_result[1].chunk_id = response[2].fields["chunk_id"]

\* the call breaks the contract of its function: a query that is empty or
\* blank, or a chunk whose document was updated at a time that is not in UTC
IsContractViolation(call) ==
    \/ /\ call.fn = "_query_vespa"
       /\ call.query # None
       /\ IsBlank(ValueOf(call.query))
    \/ /\ call.fn = "_index_vespa_chunk"
       /\ call.tzinfo # None
       /\ ValueOf(call.tzinfo) # "utc"

\* C18: a call that breaks the contract sends no request to the index, and is
\* attempted once, with no sleep of the decorator and no second attempt
C18_ContractViolationsAreNotRetried ==
    IsContractViolation(rcall) =>
        /\ gets = 0
        /\ posts = 0
        /\ sleeps = <<>>
        /\ attempts <= 1

\* the exchanges of the last attempt
LastAttempt == SelectSeq(exchanges, LAMBDA e : e.attempt = attempts)

\* C23, as claimed: the existence check gives False for status 404 and True
\* for every 2xx status, and every other status fails the attempt
C23_Every2xxStatusMeansExists ==
    (rcall.fn = "_does_document_exist" /\ attempts > 0 /\ rpc # "call") =>
        LET status == LastAttempt[1].status
        IN  /\ status = 404 => rpc = "returned" /\ returned_value = Some(FALSE)
            /\ status \in 200..299 => rpc = "returned" /\ returned_value = Some(TRUE)
            /\ status \notin 200..299 \cup {404} => rpc \in {"failed", "raised"}

\* C23, amended: the existence check gives False for status 404 and True for
\* status 200, and every other status, the other 2xx statuses among them,
\* fails the attempt
C23_OnlyStatus200MeansExists ==
    (rcall.fn = "_does_document_exist" /\ attempts > 0 /\ rpc # "call") =>
        LET status == LastAttempt[1].status
        IN  /\ Len(LastAttempt) = 1
            /\ status = 404 => rpc = "returned" /\ returned_value = Some(FALSE)
            /\ status = 200 => rpc = "returned" /\ returned_value = Some(TRUE)
            /\ status \notin {200, 404} =>
                  rpc \in {"failed", "raised"} /\ last_error = "RuntimeError"

\* an existence check has failed over a status 204, after one over a status
\* 201 that was retried
C23_Witness ==
    /\ rcall.fn = "_does_document_exist"
    /\ rpc = "failed"
    /\ attempts = 2
    /\ exchanges[1].status = 201
    /\ exchanges[2].status = 204

\* the retried operations of the remote index
RetriedOperations ==
    {"_does_document_exist", "_delete_vespa_doc_chunks", "_query_vespa",
     "_inference_chunk_by_vespa_id"}

\* C24: a retried operation is attempted at most 3 times, with a sleep of 1
\* before the second attempt and of 2 before the third; it raises only after
\* its third failed attempt, and an attempt that returns is the last one
C24_ThreeAttemptsWithSleepsOfOneAndTwo ==
    rcall.fn \in RetriedOperations =>
        /\ attempts <= 3
        /\ sleeps = SubSeq(<<1, 2>>, 1, Len(sleeps))
        /\ rpc = "call" => Len(sleeps) = attempts
        /\ rpc \in {"failed", "returned", "raised"} => Len(sleeps) = attempts - 1
        /\ rpc = "raised" => attempts = 3 /\ last_error # ""
        /\ rpc = "returned" => last_error = ""

\* an existence check has returned on its third attempt, after sleeps of 1 and 2
C24_Witness ==
    /\ rcall.fn = "_does_document_exist"
    /\ rpc = "returned"
    /\ attempts = 3
    /\ sleeps = <<1, 2>>
    /\ returned_value = Some(TRUE)

\* C26: for a chunk whose POST is answered with status 400, one more POST is
\* sent, with the cleaned fields, and no other: two POSTs in all, whether the
\* second is accepted or rejected; a rejected second POST is not followed by
\* a sleep and another attempt
C26_RejectedInsertSendsTwoRequests ==
    (rcall.fn = "_index_vespa_chunk" /\ exchanges # <<>> /\ exchanges[1].status = 400) =>
        /\ Len(exchanges) = 2
        /\ exchanges[2].cleaned
        /\ posts = 2
        /\ IsErrorStatus(exchanges[2].status) => attempts = 1 /\ sleeps = <<>>

\* the POST of the cleaned fields follows, within its attempt, a POST whose
\* answer is in the given set of statuses, and only such a POST
CleanedFollows(statuses) ==
    \A i \in DOMAIN exchanges :
        /\ exchanges[i].cleaned <=>
              /\ i > 1
              /\ exchanges[i - 1].attempt = exchanges[i].attempt
              /\ ~exchanges[i - 1].cleaned
              /\ exchanges[i - 1].status \in statuses
        /\ (~exchanges[i].cleaned /\ exchanges[i].status \in statuses) =>
              /\ i < Len(exchanges)
              /\ exchanges[i + 1].cleaned

\* C27, as claimed: the cleaned fields are posted if and only if the first
\* answer of the attempt is a client-error status
C27_EveryClientErrorIsCleaned ==
    rcall.fn = "_index_vespa_chunk" => CleanedFollows(400..499)

\* C27, amended: the cleaned fields are posted if and only if the first answer
\* of the attempt is status 400; after any other client-error status, as after
\* a server-error status, the attempt fails with no second POST
C27_OnlyStatus400IsCleaned ==
    rcall.fn = "_index_vespa_chunk" =>
        /\ CleanedFollows({400})
        /\ \A i \in DOMAIN exchanges :
              (~exchanges[i].cleaned /\ IsErrorStatus(exchanges[i].status)
                   /\ exchanges[i].status # 400) =>
                  (i < Len(exchanges) => exchanges[i + 1].attempt = exchanges[i].attempt + 1)

\* an insert has met status 413, then 500, each failing its attempt, then 400,
\* after which the cleaned fields were posted and accepted
C27_Witness ==
    /\ rcall.fn = "_index_vespa_chunk"
    /\ rpc = "returned"
    /\ Len(exchanges) = 4
    /\ exchanges[1].status = 413
    /\ exchanges[2].status = 500
    /\ exchanges[3].status = 400
    /\ exchanges[4].cleaned
    /\ exchanges[4].status = 200

(***************************************************************************)
(* Properties of id_based_retrieval.                                       *)
(***************************************************************************)
\* the chunks whose fetch has returned
Fetched == {id \in vespa_chunk_ids : fetches[id].state = "returned"}

\* C19: id_based_retrieval without a chunk index returns the chunks whose
\* fetch returned, each once and decoded, in ascending order of chunk_id,
\* whichever fetches raised; and the call raises over no fetch
C19_ReturnsFetchedChunksSortedByChunkId ==
    /\ ipc = "returned" =>
          /\ Len(id_result) = Cardinality(Fetched)
          /\ {id_result[i].chunk_id : i \in DOMAIN id_result} = Fetched
          /\ \A i, j \in DOMAIN id_result :
                i < j => id_result[i].chunk_id < id_result[j].chunk_id
          /\ \A i \in DOMAIN id_result :
                id_result[i] =
                    ValueOf(VespaHitToInferenceChunk(
                                ResponseHit([ind |-> id_result[i].chunk_id,
                                             missing |-> {}])).chunk)
    /\ ipc = "raised" => vespa_chunk_ids = {}

\* the fetch of one chunk raised, and the two that returned completed in
\* descending order of chunk_id
C19_Witness ==
    /\ ipc = "returned"
    /\ \E id \in vespa_chunk_ids : fetches[id].state = "raised"
    /\ Len(inference_chunks) = 2
    /\ inference_chunks[1].chunk_id > inference_chunks[2].chunk_id
    /\ Len(id_result) = 2

(***************************************************************************)
(* Properties of the hidden clause of the retrievals.                      *)
(***************************************************************************)
\* the retrievals that build a predicate from the filters of their caller
Retrievals == {"keyword_retrieval", "semantic_retrieval", "hybrid_retrieval", "admin_retrieval"}

\* the include_hidden argument with which a retrieval calls _build_vespa_filters
IncludeHidden(retrieval) == retrieval = "admin_retrieval"

\* the 'not hidden' clause opens the predicate
OpensWithHiddenClause(str) ==
    /\ Len(str) >= Len(HiddenFilter(FALSE))
    /\ SubSeq(str, 1, Len(HiddenFilter(FALSE))) = HiddenFilter(FALSE)

\* C20: the predicate of keyword, semantic and hybrid retrieval opens with the
\* 'not hidden' clause, whatever the filters, and no hidden document satisfies
\* the predicate followed by a match clause that holds; the predicate of admin
\* retrieval never names the hidden field.
C20_HiddenClauseFollowsRetrieval ==
    fpc = "built" =>
        \A retrieval \in Retrievals :
            include_hidden = IncludeHidden(retrieval) =>
                IF retrieval = "admin_retrieval"
                THEN \A i \in DOMAIN filter_str : filter_str[i] # HIDDEN
                ELSE /\ OpensWithHiddenClause(filter_str)
                     /\ \A doc \in Documents :
                           doc.hidden => ~Satisfies(filter_str \o <<"true">>, doc)

(***************************************************************************)
(* Properties of the worker pool.                                          *)
(***************************************************************************)
\* the top-level call has returned or raised
Ended == tpc \in {"returned", "raised"}

\* C28: a helper never shuts down the pool it was handed, on success or on
\* failure: the pool of a call with a with-block is alive and has never been
\* shut down as long as the call has not ended; a pool a helper made has been
\* shut down when the helper has returned; and when the call has ended, the one
\* pool that was made has been shut down exactly once.
C28_PoolIsShutDownOnceByItsMaker ==
    /\ (HasWithBlock(tcall.fn) /\ tpc \in {"loop", "await", "unwind"}) =>
            executor.owner = "caller" /\ executor.alive /\ executor.shutdowns = 0
    /\ (executor.owner = "helper" /\ tpc = "loop") =>
            ~executor.alive /\ executor.shutdowns = 1
    /\ Ended => executor.made = 1 /\ ~executor.alive /\ executor.shutdowns = 1

\* index() has raised in its delete phase, two existence checks having found
\* their documents: the pool outlived the existence phase and the failure
C28_Witness ==
    /\ tcall.fn = "index"
    /\ tpc = "raised"
    /\ Phases(tcall.fn)[phase] = "delete"
    /\ num_existing = 2
    /\ executor.shutdowns = 1

\* C29: every submitted task is waiting, running or has run to its end: none is
\* dropped; when the top-level call has ended every submitted task has run to
\* its end; and the call has raised exactly if a task failed.
C29_SubmittedTasksEndBeforeTheCallDoes ==
    /\ queued + running + finished_total = submitted_total
    /\ Ended => queued = 0 /\ running = 0 /\ finished_total = submitted_total
    /\ Ended => (tpc = "raised" <=> failed)

\* update() has raised: when its calling thread met the failure, more tasks
\* than the pool has workers had not ended; they have all ended now
C29_Witness ==
    /\ tcall.fn = "update"
    /\ tpc = "raised"
    /\ unfinished_at_failure = NUM_THREADS
    /\ finished_total = MaxTasks

\* C30: a pool never runs more than NUM_THREADS tasks, each of which has at
\* most one request in flight; a call makes at most one pool, and the helpers
\* of index() all run on the pool index() made.
C30_AtMostNumThreadsTasksRunOnOnePool ==
    /\ running <= NUM_THREADS
    /\ executor.made <= 1
    /\ (tcall.fn = "index" /\ tpc \in {"await", "unwind"}) =>
            external_executor /\ executor.owner = "caller"

\* index() of more chunks than the pool has workers is inserting: NUM_THREADS
\* insertions run and one waits for a worker
C30_Witness ==
    /\ tcall.fn = "index"
    /\ Phases(tcall.fn)[phase] = "insert"
    /\ running = NUM_THREADS
    /\ queued = 1

(***************************************************************************)
(* Properties of the paginated scan and the deletion of a document.        *)
(***************************************************************************)
\* the chunk ids an index holds of a document id
DocumentChunkIds(index, id) == {c \in DOMAIN index : index[c].document_id = id}

\* the sequence lists each element of the set exactly once
IsListingOf(seq, set) ==
    Len(seq) = Cardinality(set) /\ {seq[i] : i \in DOMAIN seq} = set

\* C31: for a document with N chunks in the index and page size P the scan
\* ends after N div P + 1 pages and returns each of the N chunk ids exactly
\* once; the deletion sends its DELETEs for the returned ids in order, one
\* each; and when it has returned it has sent one DELETE for every returned id
\* and the index holds no chunk of the document.
C31_ScanListsEveryChunkAndDeleteRemovesThem ==
    LET owed == DocumentChunkIds(scanned, document_id)
    IN  /\ pages <= Cardinality(owed) \div hits_per_page + 1
        /\ gpc \in {"delete", "failed", "returned", "raised"} =>
                /\ IsListingOf(doc_chunk_ids, owed)
                /\ pages = Cardinality(owed) \div hits_per_page + 1
        /\ deletes = SubSeq(doc_chunk_ids, 1, Len(deletes))
        /\ gpc = "returned" =>
                deletes = doc_chunk_ids /\ DocumentChunkIds(vespa, document_id) = {}

(***************************************************************************)
(* Properties of the ranking inputs of the retrieval methods.              *)
(***************************************************************************)
\* the request of the call carries the decay factor of its multiplier
AttachesDecayFactor ==
    /\ retrieval_call.time_decay_multiplier # None
    /\ query_params.decay_factor =
          Some(ToString(configured.DOC_TIME_DECAY
                            * ValueOf(retrieval_call.time_decay_multiplier)))

\* the request of hybrid_retrieval carries the blend weight, the caller's when
\* given and the configured one otherwise; no other request carries one
AttachesAlphaIfHybrid ==
    IF retrieval_call.fn = "hybrid_retrieval"
    THEN query_params.alpha =
            IF retrieval_call.hybrid_alpha = None THEN Some(configured.HYBRID_ALPHA)
            ELSE retrieval_call.hybrid_alpha
    ELSE query_params.alpha = None

\* C32 as stated: the request of every retrieval method, admin_retrieval
\* included, carries a decay factor equal to DOC_TIME_DECAY times the caller's
\* multiplier, and that of hybrid_retrieval carries the blend weight.
C32_EveryRetrievalAttachesDecayFactor ==
    qpc = "sent" => AttachesDecayFactor /\ AttachesAlphaIfHybrid

\* C32, amended: the requests of keyword_retrieval, semantic_retrieval and
\* hybrid_retrieval carry a decay factor equal to DOC_TIME_DECAY times the
\* caller's multiplier; that of admin_retrieval, which takes no multiplier,
\* carries none; that of hybrid_retrieval carries the blend weight, the
\* caller's when given and HYBRID_ALPHA otherwise.
C32_RankedRetrievalsAttachDecayFactor ==
    qpc = "sent" =>
        /\ IF retrieval_call.fn = "admin_retrieval"
           THEN query_params.decay_factor = None
           ELSE AttachesDecayFactor
        /\ AttachesAlphaIfHybrid

\* hybrid_retrieval was called without a blend weight and with a multiplier of
\* 2 under a decay constant of 5 and a configured weight of 6
C32_Witness ==
    /\ qpc = "sent"
    /\ retrieval_call.fn = "hybrid_retrieval"
    /\ retrieval_call.hybrid_alpha = None
    /\ configured = [DOC_TIME_DECAY |-> 5, HYBRID_ALPHA |-> 6]
    /\ query_params = RankingParams("hybrid_search", Some("10"), Some(6))

(***************************************************************************)
(* The bound of the summary truncator.                                     *)
(***************************************************************************)
\* the sum of the lengths of the fragments before the n-th
RECURSIVE LengthBefore(_, _)
LengthBefore(fragments, n) ==
    IF n <= 1 THEN 0 ELSE Len(fragments[n - 1]) + LengthBefore(fragments, n - 1)

\* the fragments are a bounded truncation of the segments: the fragments before
\* the last are the segments at their places; the last is a part of the segment
\* at its place, whole or cut, with or without one appended ellipsis; and the
\* lengths, the appended ellipsis left out, sum to at most max
IsBoundedTruncation(fragments, segments, max) ==
    LET k == Len(fragments)
    IN  /\ k <= Len(segments)
        /\ \A i \in 1..(k - 1) : fragments[i] = segments[i]
        /\ k > 0 =>
              \E n \in 0..Len(segments[k]), appended \in {<<>>, Ellipsis} :
                  /\ \E from \in 1..(Len(segments[k]) - n + 1) :
                        fragments[k] = SubSeq(segments[k], from, from + n - 1) \o appended
                  /\ appended = <<>> => n = Len(segments[k])
                  /\ LengthBefore(fragments, k) + n <= max

\* C33: for every summary and every max length >= 1 the truncator does not
\* raise, and what it returns is a bounded truncation of the segments of the
\* summary: the fragments before the last are the segments unmodified and in
\* order, at most one ellipsis is appended and only to the last fragment, and
\* the characters of the fragments, the appended ellipsis not counted, total at
\* most the max length.
C33_TruncatorIsBoundedAndNeverRaises ==
    /\ ~summary_raised
    /\ spc # "idle" =>
          IsBoundedTruncation(processed_summary, SplitSections(dynamic_summary),
                              max_summary_length)
    /\ spc = "reprocessed" =>
          IsBoundedTruncation(reprocessed_summary,
                              SplitSections(JoinFragments(processed_summary)),
                              max_summary_length)

\* the second segment, cut to the remaining budget, is a single space and is
\* empty once stripped: the ellipsis goes to the fragment before it
C33_Witness ==
    /\ spc = "processed"
    /\ dynamic_summary = <<"a", SEP, " ", "a">>
    /\ max_summary_length = 2
    /\ processed_summary = << <<"a", ".", ".", ".">> >>

(***************************************************************************)
(* The existence check of index() looks at first chunks only.              *)
(***************************************************************************)
\* the call supplies chunks of the document, none of them with index 0
SuppliedWithoutFirstChunk(doc) ==
    ChunkIdsOf(chunks, doc) # {} /\ 0 \notin ChunkIdsOf(chunks, doc)

C35_AcknowledgedOnceBeforeHandlingAndFailuresAreLogged ==
    \A i \in DOMAIN slack_requests :
        /\ acks[i] = IF lpc[i] = "received" THEN 0 ELSE 1
        /\ handler[i] # "" => acks[i] = 1 /\ handler[i] = HandlerOf(slack_requests[i])
        /\ lpc[i] = "handling" => handler[i] # ""
        /\ logged[i] = IF handler_failed[i] THEN 1 ELSE 0
        /\ handler_failed[i] => lpc[i] = "returned"
        /\ lpc[i] = "raised" => handler[i] = "" /\ logged[i] = 0

\* the handler of the first request failed and was logged; the second request
\* was acknowledged and its handler has returned
C35_Witness ==
    /\ handler_failed[1]
    /\ logged[1] = 1
    /\ lpc[1] = "returned"
    /\ handler[2] = "process_message"
    /\ lpc[2] = "returned"
    /\ ~handler_failed[2]

====
